---- MODULE Spec2Model ----
(***************************************************************************)
(* Model of mkpkg's pipeline engine (src/src/progress.rs): Progress::run   *)
(* spawns bar_count-1 worker threads and a ticker thread; each worker runs *)
(* progress_handler over the per-stage queues.  Stage 0 is the download    *)
(* stage (Downloader::download_setup), every later stage is the build      *)
(* stage (Builder::build_setup).  The environment (file system, network,   *)
(* build commands, terminal) answers nondeterministically.                 *)
(***************************************************************************)
EXTENDS Integers, Sequences, FiniteSets, TLC

\* ------------------------------------------------------------------ bounds
MaxBatch == 2      \* recipes in the batch: 0..MaxBatch
MaxCpu == 3        \* util::cpu_count(): 1..MaxCpu
MaxStages == 2     \* add_step calls: 0..MaxStages
MaxSources == 1    \* sources of one recipe: 0..MaxSources
MaxFetchSources == 2   \* sources of the recipe download_setup works on
MaxPayload == 2        \* bytes of the payload behind the URL: 0..MaxPayload
MaxFragment == 3       \* tokens of a git URL's fragment: 0..MaxFragment
MaxSuffixes == 2       \* tokens of a source's file name: 0..MaxSuffixes
MaxCmds == 2           \* commands of one phase of a recipe: 0..MaxCmds
MaxRecipeCmds == 3     \* commands of a recipe: 0..MaxRecipeCmds
MaxText == 3           \* characters of a recipe field before substitution: 0..MaxText
MaxValue == 2          \* characters of an env value: 0..MaxValue
MaxCmdLen == 3         \* characters of a command string
MaxNameChars == 3      \* characters of a recipe name
MaxColumns == 8        \* columns of the terminal
MaxNameLen == 2    \* characters of a recipe's name, and of its version: 1..MaxNameLen

\* ------------------------------------------------------------------ state
VARIABLES
    bar_count,      \* Progress.bar_count
    nstages,        \* iter_fns.len()
    batch,          \* pkgs.len(); the recipes are 1..batch (sorted, deduplicated)
    fail_fast,      \* config.fail_fast
    nsources,       \* nsources[r]: pkg.source().len()
    base_exists,    \* base_exists[r]: builddir.exists() for recipe r
    main_pc,        \* position of the thread that called Progress::run
    ticker_pc,      \* position of the ticker thread
    pc,             \* pc[w]: position of worker w in progress_handler / its closure
    current_queue,  \* current_queue[w]
    buildfile,      \* buildfile[w]: the item worker w popped (0: none)
    src_i,          \* src_i[w]: index of the next source in the download loop
    queues,         \* queues[k]: the SegQueue of stage k
    errors,         \* the Mutex<Vec<Error>>
    total_pos,      \* total_bar position
    total_len,      \* total_bar length
    total_msg,      \* total_bar message (the number it shows)
    total_done,     \* total_bar finished
    lane,           \* lane[w]: what worker w's bar shows
    counter,        \* the AtomicUsize counting workers still running
    result,         \* what Progress::run returned
    exit_code,      \* the process exit code
    \* history of the run (not program state)
    started,        \* started[r][k]: calls of iter_fns[k] on r
    outcome,        \* outcome[r][k]: what iter_fns[k] returned on r
    pushed,         \* pushed[r][k]: pushes of r onto queues[k]
    counted,        \* counted[r]: total_bar.inc(1) calls made for r
    reports,        \* reports[r]: add_error calls made while working on r
    mkdir_failed,   \* mkdir_failed[r][k]: r popped at stage k, create_dir failed
    inits,          \* inits[w][k]: calls of init_fns[k] by worker w
    overtaken,      \* an item was pushed onto a queue some worker had already left
    \* what Progress::new read (tracked by CountSpec only)
    limits,         \* [cpu_count, parallel_download, parallel_build], or <<>>
    \* Action::gather_buildfiles (LayoutSpec)
    recipe_files,   \* recipe_files[id]: name and version the recipe file id declares
    pkgs,           \* the recipe identifiers given on the command line
    packages,       \* the identifiers after sort() and dedup()
    gathered,       \* the BuildFiles opened so far
    gather_pc,      \* position in gather_buildfiles
    \* download_setup's iter_fn on one recipe (FetchSpec)
    sources,        \* pkg.source()
    parent_dir,     \* pkg.parent_dir(), relative to pkgbuild_dir
    fetch_pc,       \* position in the iter_fn
    fetch_i,        \* sources taken from the iterator so far
    attempts,       \* history: the indices self.download was called on, in order
    fetch_errors,   \* what was passed to add_error, in order
    copied,         \* the paths copy_dir copied into the download directory
    fetch_result,   \* what the iter_fn returned
    \* Downloader::download_http on one URL, run up to twice (HttpSpec)
    payload,        \* the bytes the server serves for the URL
    head,           \* the server's answer to HEAD
    honours_range,  \* the server answers a Range request with that part only
    clobber,        \* config.clobber
    dest,           \* the destination file: [exists, bytes]
    http_pc,        \* position in download_http
    headers,        \* the request headers: {} or {s} for Range: bytes=s-
    open_opts,      \* the OpenOptions
    resp,           \* the body of the GET response
    run,            \* which run of download_http this is
    http_result,    \* http_result[n]: what run n returned
    sent,           \* history, sent[n]: the headers of run n's GET, "no GET" if none
    prior,          \* history: the destination when run 1 started
    deleted,        \* history: bytes cut off the destination's end between the runs
    \* Downloader::download_git on one URL (GitSpec)
    git_url,        \* the URL: [fragment], {} or {f} with f the fragment's tokens
    fragment,       \* the local fragment: Option<String>
    git_clobber,    \* config.clobber
    git_dest,       \* download_path: [exists, repo, head]
    git_prior,      \* history: download_path when download_git was called
    git_pc,         \* position in download_git
    git_calls,      \* history: the git and fs calls made, in order
    git_result,      \* what download_git returned
    \* Builder::build_setup's iter_fn on one recipe (ExtractSpec, BuildSpec)
    recipe,         \* the BuildFile: [source, skip_extract, prepare, build, install]
    verbose,        \* config.verbose
    tree,           \* the recipe's base directory: tree[p] is "absent" or what p holds
    tree_prior,     \* history: tree when iter_fn was called
    b_pc,           \* position in iter_fn
    b_src,          \* index of the source Archiver::extract works on
    b_step,         \* index into steps
    b_cmd,          \* index of the command in the step
    b_ops,          \* history: what was done to the sources and the commands run
    b_result,       \* what iter_fn returned
    b_errors,       \* the errors progress_handler recorded for the recipe
    b_total,        \* total_bar's position
    b_snapshot,      \* history: pkg/ when Archiver::package was called
    \* the download and build stages run twice on one recipe with one source (RepeatSpec)
    rp_kind,        \* the source: [scheme, range, resize, fragment]
    rp_modifies,    \* the prepare commands change the source in src/
    rp_run,         \* which run this is
    rp_pc,          \* position in the run
    rp_src,         \* the source in src/: [exists, content]
    rp_build,       \* what extract put into build/
    rp_errors,      \* rp_errors[n]: the errors recorded in run n
    rp_artifact,    \* rp_artifact[n]: what run n's commands built the package from
    \* the variable substitution of BuildFile::open (SubstSpec)
    env,            \* buildfile.env: the keys and their values
    order,          \* the order env.iter() yields the keys in
    package_raw,    \* the PackageRaw: [name, version, description, license, source]
    package_in,     \* history: the PackageRaw as read from the file
    subst_pc,       \* position in BuildFile::open
    subst_i,        \* index into order
    \* util::copy_dir called twice on one source and one destination (CopySpec)
    cp_walk,        \* the entries WalkDir yields for the source: [path, is_dir]
    cp_dest,        \* the destination: what is at every path below it
    cp_prior,       \* history: the destination before the first call
    cp_first,       \* history: the destination when the first call returned
    cp_run,         \* which call this is
    cp_i,           \* index into cp_walk
    cp_pc,          \* position in copy_dir
    cp_result,      \* cp_result[n]: what call n returned
    \* run_step's lane message for one command (MessageSpec)
    ms_cmd,         \* the command string, as characters
    ms_name,        \* pkg.name().chars().count()
    ms_width,       \* term_size::dimensions(): the columns, if there is a terminal
    ms_checks,      \* the build checks integer overflow (debug) or wraps (release)
    ms_pc,          \* position in run_step
    ms_line,        \* cmd.lines().next().unwrap()
    ms_take,        \* the number handed to take()
    ms_msg          \* the lane message

config_vars == <<bar_count, nstages, batch, fail_fast, nsources, limits>>
layout_vars == <<recipe_files, pkgs, packages, gathered, gather_pc>>
fetch_vars == <<sources, parent_dir, fetch_pc, fetch_i, attempts, fetch_errors, copied,
                fetch_result>>
http_vars == <<payload, head, honours_range, clobber, dest, http_pc, headers, open_opts,
               resp, run, http_result, sent, prior, deleted>>
git_vars == <<git_url, fragment, git_clobber, git_dest, git_prior, git_pc, git_calls,
              git_result>>
build_vars == <<recipe, verbose, tree, tree_prior, b_pc, b_src, b_step, b_cmd, b_ops,
                b_result, b_errors, b_total, b_snapshot>>
repeat_vars == <<rp_kind, rp_modifies, rp_run, rp_pc, rp_src, rp_build, rp_errors,
                 rp_artifact>>
open_vars == <<env, order, package_raw, package_in, subst_pc, subst_i>>
copy_vars == <<cp_walk, cp_dest, cp_prior, cp_first, cp_run, cp_i, cp_pc, cp_result>>
message_vars == <<ms_cmd, ms_name, ms_width, ms_checks, ms_pc, ms_line, ms_take,
                  ms_msg>>
side_vars == <<layout_vars, fetch_vars, http_vars, git_vars, build_vars, repeat_vars,
               open_vars, copy_vars, message_vars>>

vars == <<bar_count, nstages, batch, fail_fast, nsources, base_exists, main_pc,
          ticker_pc, pc, current_queue, buildfile, src_i, queues, errors,
          total_pos, total_len, total_msg, total_done, lane, counter, result,
          exit_code, started, outcome, pushed, counted, reports, mkdir_failed,
          inits, overtaken, limits, recipe_files, pkgs, packages, gathered,
          gather_pc, sources, parent_dir, fetch_pc, fetch_i, attempts, fetch_errors,
          copied, fetch_result, payload, head, honours_range, clobber, dest, http_pc,
          headers, open_opts, resp, run, http_result, sent, prior, deleted,
          git_vars, build_vars, repeat_vars, open_vars, copy_vars, message_vars>>
engine_vars == <<bar_count, nstages, batch, fail_fast, nsources, limits, base_exists,
                main_pc, ticker_pc, pc, current_queue, buildfile, src_i, queues,
                errors, total_pos, total_len, total_msg, total_done, lane, counter,
                result, exit_code, started, outcome, pushed, counted, reports,
                mkdir_failed, inits, overtaken>>
\* what the actions of one part leave alone
outside_layout == <<engine_vars, fetch_vars, http_vars, git_vars, build_vars,
                      repeat_vars, open_vars, copy_vars, message_vars>>
outside_fetch == <<engine_vars, layout_vars, http_vars, git_vars, build_vars,
                     repeat_vars, open_vars, copy_vars, message_vars>>
outside_http == <<engine_vars, layout_vars, fetch_vars, git_vars, build_vars,
                    repeat_vars, open_vars, copy_vars, message_vars>>
outside_git == <<engine_vars, layout_vars, fetch_vars, http_vars, build_vars,
                   repeat_vars, open_vars, copy_vars, message_vars>>
outside_build == <<engine_vars, layout_vars, fetch_vars, http_vars, git_vars,
                     repeat_vars, open_vars, copy_vars, message_vars>>
outside_repeat == <<engine_vars, layout_vars, fetch_vars, http_vars, git_vars,
                      build_vars, open_vars, copy_vars, message_vars>>
outside_subst == <<engine_vars, layout_vars, fetch_vars, http_vars, git_vars,
                     build_vars, repeat_vars, copy_vars, message_vars>>
outside_copy == <<engine_vars, layout_vars, fetch_vars, http_vars, git_vars, build_vars,
                    repeat_vars, open_vars, message_vars>>
outside_message == <<engine_vars, layout_vars, fetch_vars, http_vars, git_vars,
                       build_vars, repeat_vars, open_vars, copy_vars>>
hist_vars == <<started, outcome, pushed, counted, reports, mkdir_failed, inits,
               overtaken>>

\* ------------------------------------------------------------------ helpers
Min(a, b) == IF a < b THEN a ELSE b
Max(a, b) == IF a > b THEN a ELSE b

\* bar_count is at most max(cpu_count, 2)
MaxWorkers == Max(MaxCpu, 2) - 1

Recipes == 1..batch
Stages == 0..(nstages - 1)
Workers == 1..(bar_count - 1)

\* Option<u32>: {} is None, {v} is Some(v)
OptU32(hi) == {{}} \cup {{v} : v \in 0..hi}
OptionOf(S) == {{}} \cup {{v} : v \in S}
unwrap(opt) == CHOOSE v \in opt : TRUE
\* faulty variant: the cap is the option's value itself
CapByValue(n, opt) == IF opt = {} THEN n ELSE Min(n, unwrap(opt))
\* bar_count.min(num as usize + 1) when the option is set
CapBy(n, opt) == IF opt = {} THEN n ELSE Min(n, (CHOOSE v \in opt : TRUE) + 1)

\* Progress::new
BarCount(npkgs, cpu, parallel_download, parallel_build) ==
    Max(CapBy(CapBy(Min(npkgs + 1, cpu), parallel_download), parallel_build), 2)

\* faulty variant: the counter also counts the totals bar
CounterInitWithTotal(bc) == Max(bc, 2)

\* AtomicUsize::new(self.bar_count.max(2) - 1)
CounterInit(bc) == Max(bc, 2) - 1

\* first_queue.push(buildfile) for each of iter; the other queues start empty
RECURSIVE IterSeq(_)
IterSeq(n) == IF n = 0 THEN <<>> ELSE Append(IterSeq(n - 1), n)
InitialQueues(n, ns) == [k \in 0..(ns - 1) |-> IF k = 0 THEN IterSeq(n) ELSE <<>>]

\* queues.len()
queues_len(qs) == Cardinality(DOMAIN qs)

StageKind(k) == IF k = 0 THEN "download" ELSE "build"

Err(r, k, kind) == [pkg |-> r, stage |-> k, kind |-> kind]

\* faulty variant: the new error replaces the collected ones
add_error_overwrite(errs, err) == <<err>>

\* the add_error closure: errors.push(err)
add_error(errs, err) == Append(errs, err)
\* faulty variant: the message is the length before the push
add_error_message_before(errs) == Len(errs) - 1
\* total_bar.set_message(&errors.len().to_string()), under the lock the push
\* was made under
add_error_message(errs) == Len(errs)

ErrorsOf(errs, r) == {i \in 1..Len(errs) : errs[i].pkg = r}
WorkerErrors(errs) == {i \in 1..Len(errs) : errs[i].pkg # 0}

\* ------------------------------------------------------------------ Init
EngineInit ==
    /\ batch \in 0..MaxBatch
    /\ nstages \in 0..MaxStages
    /\ fail_fast \in BOOLEAN
    /\ bar_count \in {BarCount(batch, cpu, pd, pb) :
                         cpu \in 1..MaxCpu, pd \in OptU32(MaxCpu), pb \in OptU32(MaxCpu)}
    /\ nsources \in [1..batch -> 0..MaxSources]
    /\ base_exists \in [1..batch -> BOOLEAN]
    /\ main_pc = "start"
    /\ ticker_pc = "unspawned"
    /\ pc = [w \in 1..(bar_count - 1) |-> "unspawned"]
    /\ current_queue = [w \in 1..(bar_count - 1) |-> 0]
    /\ buildfile = [w \in 1..(bar_count - 1) |-> 0]
    /\ src_i = [w \in 1..(bar_count - 1) |-> 0]
    /\ queues = <<>>
    /\ errors = <<>>
    /\ total_pos = 0
    /\ total_len = 0
    /\ total_msg = 0
    /\ total_done = FALSE
    /\ lane = [w \in 1..(bar_count - 1) |-> [style |-> "none", msg |-> ""]]
    /\ counter = 0
    /\ result = [kind |-> "none", errs |-> <<>>]
    /\ exit_code = -1
    /\ started = [r \in 1..batch |-> [k \in 0..(nstages - 1) |-> 0]]
    /\ outcome = [r \in 1..batch |-> [k \in 0..(nstages - 1) |-> "none"]]
    /\ pushed = [r \in 1..batch |-> [k \in 0..(nstages - 1) |-> 0]]
    /\ counted = [r \in 1..batch |-> 0]
    /\ reports = [r \in 1..batch |-> 0]
    /\ mkdir_failed = [r \in 1..batch |-> [k \in 0..(nstages - 1) |-> 0]]
    /\ inits = [w \in 1..(bar_count - 1) |-> [k \in 0..(nstages - 1) |-> 0]]
    /\ overtaken = FALSE

\* the engine alone: the limits are read through bar_count only
LayoutIdle ==
    /\ recipe_files = <<>>
    /\ pkgs = <<>>
    /\ packages = <<>>
    /\ gathered = <<>>
    /\ gather_pc = "idle"

FetchIdle ==
    /\ sources = <<>>
    /\ parent_dir = <<>>
    /\ fetch_pc = "idle"
    /\ fetch_i = 0
    /\ attempts = <<>>
    /\ fetch_errors = <<>>
    /\ copied = {}
    /\ fetch_result = "none"

NoFile == [exists |-> FALSE, bytes |-> <<>>]
NoOpts == [append |-> FALSE, create |-> FALSE, truncate |-> FALSE, write |-> FALSE]

HttpIdle ==
    /\ payload = <<>>
    /\ head = <<>>
    /\ honours_range = FALSE
    /\ clobber = FALSE
    /\ dest = NoFile
    /\ http_pc = "idle"
    /\ headers = {}
    /\ open_opts = NoOpts
    /\ resp = <<>>
    /\ run = 0
    /\ http_result = <<>>
    /\ sent = <<>>
    /\ prior = NoFile
    /\ deleted = -1

GitIdle ==
    /\ git_url = <<>>
    /\ fragment = {}
    /\ git_clobber = FALSE
    /\ git_dest = <<>>
    /\ git_prior = <<>>
    /\ git_pc = "idle"
    /\ git_calls = <<>>
    /\ git_result = "none"

BuildIdle ==
    /\ recipe = <<>>
    /\ verbose = FALSE
    /\ tree = <<>>
    /\ tree_prior = <<>>
    /\ b_pc = "idle"
    /\ b_src = 0
    /\ b_step = 0
    /\ b_cmd = 0
    /\ b_ops = <<>>
    /\ b_result = <<>>
    /\ b_errors = <<>>
    /\ b_total = 0
    /\ b_snapshot = <<>>

RepeatIdle ==
    /\ rp_kind = <<>>
    /\ rp_modifies = FALSE
    /\ rp_run = 0
    /\ rp_pc = "idle"
    /\ rp_src = <<>>
    /\ rp_build = <<>>
    /\ rp_errors = <<>>
    /\ rp_artifact = <<>>

SubstIdle ==
    /\ env = <<>>
    /\ order = <<>>
    /\ package_raw = <<>>
    /\ package_in = <<>>
    /\ subst_pc = "idle"
    /\ subst_i = 0

CopyIdle ==
    /\ cp_walk = <<>>
    /\ cp_dest = <<>>
    /\ cp_prior = <<>>
    /\ cp_first = <<>>
    /\ cp_run = 0
    /\ cp_i = 0
    /\ cp_pc = "idle"
    /\ cp_result = <<>>

MessageIdle ==
    /\ ms_cmd = <<>>
    /\ ms_name = 0
    /\ ms_width = {}
    /\ ms_checks = FALSE
    /\ ms_pc = "idle"
    /\ ms_line = <<>>
    /\ ms_take = 0
    /\ ms_msg = <<>>

\* the other parts at rest
EngineRest == LayoutIdle /\ FetchIdle /\ HttpIdle /\ GitIdle /\ BuildIdle /\ RepeatIdle /\ SubstIdle /\ CopyIdle /\ MessageIdle
LayoutRest == FetchIdle /\ HttpIdle /\ GitIdle /\ BuildIdle /\ RepeatIdle /\ SubstIdle /\ CopyIdle /\ MessageIdle
FetchRest == LayoutIdle /\ HttpIdle /\ GitIdle /\ BuildIdle /\ RepeatIdle /\ SubstIdle /\ CopyIdle /\ MessageIdle
HttpRest == LayoutIdle /\ FetchIdle /\ GitIdle /\ BuildIdle /\ RepeatIdle /\ SubstIdle /\ CopyIdle /\ MessageIdle
GitRest == LayoutIdle /\ FetchIdle /\ HttpIdle /\ BuildIdle /\ RepeatIdle /\ SubstIdle /\ CopyIdle /\ MessageIdle
BuildRest == LayoutIdle /\ FetchIdle /\ HttpIdle /\ GitIdle /\ RepeatIdle /\ SubstIdle /\ CopyIdle /\ MessageIdle
RepeatRest == LayoutIdle /\ FetchIdle /\ HttpIdle /\ GitIdle /\ BuildIdle /\ SubstIdle /\ CopyIdle /\ MessageIdle
SubstRest == LayoutIdle /\ FetchIdle /\ HttpIdle /\ GitIdle /\ BuildIdle /\ RepeatIdle /\ CopyIdle /\ MessageIdle
CopyRest == LayoutIdle /\ FetchIdle /\ HttpIdle /\ GitIdle /\ BuildIdle /\ RepeatIdle /\ SubstIdle /\ MessageIdle
MessageRest == LayoutIdle /\ FetchIdle /\ HttpIdle /\ GitIdle /\ BuildIdle /\ RepeatIdle /\ SubstIdle /\ CopyIdle

Init == EngineInit /\ limits = <<>> /\ EngineRest

\* the engine at rest, for the specifications of the other parts
EngineIdle ==
    /\ EngineInit
    /\ batch = 0 /\ nstages = 0 /\ ~fail_fast /\ bar_count = 2
    /\ limits = <<>>

\* ------------------------------------------------------------------ Progress::run
\* fs::create_dir_all(config.build_dir) fails: return Err(AggregateError)
RunCreateDirFails ==
    /\ main_pc = "start"
    /\ result' = [kind |-> "Err", errs |-> <<Err(0, 0, "CreateDir")>>]
    /\ main_pc' = "returned"
    /\ UNCHANGED <<side_vars, config_vars, hist_vars, base_exists, ticker_pc, pc, current_queue,
                   buildfile, src_i, queues, errors, total_pos, total_len, total_msg,
                   total_done, lane, counter, exit_code>>

\* self.iter_fns.len() == 0: return Ok(())
RunNoStages ==
    /\ main_pc = "start"
    /\ nstages = 0
    /\ result' = [kind |-> "Ok", errs |-> <<>>]
    /\ main_pc' = "returned"
    /\ UNCHANGED <<side_vars, config_vars, hist_vars, base_exists, ticker_pc, pc, current_queue,
                   buildfile, src_i, queues, errors, total_pos, total_len, total_msg,
                   total_done, lane, counter, exit_code>>

\* the queues, the bars and the counter are built, the ticker and the workers
\* are spawned, and the caller blocks in multibar.join()
RunSpawn ==
    /\ main_pc = "start"
    /\ nstages # 0
    /\ queues' = InitialQueues(batch, nstages)
    /\ pushed' = [r \in Recipes |-> [pushed[r] EXCEPT ![0] = @ + 1]]
    /\ counter' = CounterInit(bar_count)
    /\ total_msg' = 0
    /\ ticker_pc' = "running"
    /\ pc' = [w \in Workers |-> "init"]
    /\ main_pc' = "join"
    /\ UNCHANGED <<side_vars, config_vars, inits, base_exists, current_queue, buildfile, src_i, errors,
                   total_pos, total_len, total_done, lane, result, exit_code,
                   started, outcome, counted, reports, mkdir_failed, overtaken>>

\* the ticker thread: recv_timeout times out, every bar ticks
Tick ==
    /\ ticker_pc = "running"
    /\ UNCHANGED vars

\* the ticker thread: _tx was dropped, recv_timeout reports Disconnected
TickerExit ==
    /\ ticker_pc = "running"
    /\ main_pc = "scope"
    /\ ticker_pc' = "exited"
    /\ UNCHANGED <<side_vars, config_vars, hist_vars, base_exists, main_pc, pc, current_queue,
                   buildfile, src_i, queues, errors, total_pos, total_len, total_msg,
                   total_done, lane, counter, result, exit_code>>

\* MultiProgress::join returns once every bar added to it has finished
AllBarsFinished == total_done /\ \A w \in Workers : lane[w].msg = "Done"

JoinOk ==
    /\ main_pc = "join"
    /\ AllBarsFinished
    /\ main_pc' = "scope"
    /\ UNCHANGED <<side_vars, config_vars, hist_vars, base_exists, ticker_pc, pc, current_queue,
                   buildfile, src_i, queues, errors, total_pos, total_len, total_msg,
                   total_done, lane, counter, result, exit_code>>

\* multibar.join() fails drawing: errors.lock().unwrap().push(Multibar(f))
JoinErr ==
    /\ main_pc = "join"
    /\ errors' = Append(errors, Err(0, 0, "Multibar"))
    /\ main_pc' = "scope"
    /\ UNCHANGED <<side_vars, config_vars, hist_vars, base_exists, ticker_pc, pc, current_queue,
                   buildfile, src_i, queues, total_pos, total_len, total_msg,
                   total_done, lane, counter, result, exit_code>>

\* Progress::run's result from the collected errors
RunResult(errs) ==
    IF Len(errs) > 0 THEN [kind |-> "Err", errs |-> errs] ELSE [kind |-> "Ok", errs |-> <<>>]

\* the scope has joined every thread; errors.into_inner()
RunReturn ==
    /\ main_pc = "scope"
    /\ ticker_pc = "exited"
    /\ \A w \in Workers : pc[w] = "done"
    /\ result' = RunResult(errors)
    /\ main_pc' = "returned"
    /\ UNCHANGED <<side_vars, config_vars, hist_vars, base_exists, ticker_pc, pc, current_queue,
                   buildfile, src_i, queues, errors, total_pos, total_len, total_msg,
                   total_done, lane, counter, exit_code>>

\* main: process::exit(1) on Err, a normal return otherwise
ExitCode(res) == IF res.kind = "Err" THEN 1 ELSE 0

MainExit ==
    /\ main_pc = "returned"
    /\ exit_code' = ExitCode(result)
    /\ main_pc' = "exited"
    /\ UNCHANGED <<side_vars, config_vars, hist_vars, base_exists, ticker_pc, pc, current_queue,
                   buildfile, src_i, queues, errors, total_pos, total_len, total_msg,
                   total_done, lane, counter, result>>

\* ------------------------------------------------------------------ progress_handler
\* init_fns[current_queue](total_bar, progbar): the lane takes the stage's style,
\* total_bar.set_length(pkgslen)
WInit(w) ==
    /\ pc[w] = "init"
    /\ lane' = [lane EXCEPT ![w].style = StageKind(current_queue[w])]
    /\ total_len' = batch
    /\ pc' = [pc EXCEPT ![w] = "loop"]
    /\ inits' = [inits EXCEPT ![w][current_queue[w]] = @ + 1]
    /\ UNCHANGED <<side_vars, config_vars, base_exists, main_pc, ticker_pc,
                   current_queue, buildfile, src_i, queues, errors, total_pos,
                   total_msg, total_done, counter, result, exit_code, started,
                   outcome, pushed, counted, reports, mkdir_failed, overtaken>>

\* queues[current_queue].try_pop() is Some(buildfile)
try_pop_item(q) == Head(q)
\* faulty variant: the item is read but stays in the queue
try_pop_rest_peek(q) == q
try_pop_rest(q) == Tail(q)

Pop(w) ==
    /\ pc[w] = "loop"
    /\ queues[current_queue[w]] # <<>>
    /\ buildfile' = [buildfile EXCEPT ![w] = try_pop_item(queues[current_queue[w]])]
    /\ queues' = [queues EXCEPT ![current_queue[w]] = try_pop_rest(@)]
    /\ pc' = [pc EXCEPT ![w] = "popped"]
    /\ UNCHANGED <<side_vars, config_vars, hist_vars, base_exists, main_pc, ticker_pc,
                   current_queue, src_i, errors, total_pos, total_len, total_msg,
                   total_done, lane, counter, result, exit_code>>

\* faulty variant: a worker gives up its queue whether or not it is empty
MayAdvanceAlways(w) == TRUE
\* faulty variant: a worker also gives up its queue once any error was recorded
MayAdvanceOrErrors(w) == queues[current_queue[w]] = <<>> \/ errors # <<>>

\* try_pop() is None: current_queue += 1, then break or the next stage's init
MayAdvance(w) == queues[current_queue[w]] = <<>>

\* faulty variant: the next stage's init_fn is not called
AfterAdvanceNoInit(k, nq) == IF k + 1 = nq THEN "finish" ELSE "loop"
\* current_queue == queues.len(): break; else init_fns[current_queue]
AfterAdvance(k, nq) == IF k + 1 = nq THEN "finish" ELSE "init"

Advance(w) ==
    /\ pc[w] = "loop"
    /\ MayAdvance(w)
    /\ current_queue' = [current_queue EXCEPT ![w] = @ + 1]
    /\ pc' = [pc EXCEPT ![w] = AfterAdvance(current_queue[w], queues_len(queues))]
    /\ UNCHANGED <<side_vars, config_vars, hist_vars, base_exists, main_pc, ticker_pc,
                   buildfile, src_i, queues, errors, total_pos, total_len, total_msg,
                   total_done, lane, counter, result, exit_code>>

\* builddir exists, or fs::create_dir(&builddir) succeeds: iter_fns[current_queue]
\* is called on the item
CreateDirOk(w) ==
    /\ pc[w] = "popped"
    /\ base_exists' = [base_exists EXCEPT ![buildfile[w]] = TRUE]
    /\ started' = [started EXCEPT ![buildfile[w]][current_queue[w]] = @ + 1]
    /\ src_i' = [src_i EXCEPT ![w] = 0]
    /\ pc' = [pc EXCEPT ![w] = "run"]
    /\ UNCHANGED <<side_vars, config_vars, inits, main_pc, ticker_pc, current_queue, buildfile, queues,
                   errors, total_pos, total_len, total_msg, total_done, lane, counter,
                   result, exit_code, outcome, pushed, counted, reports, mkdir_failed,
                   overtaken>>

\* faulty variant: without the `continue`, iter_fn is called after the error
CreateDirFailsThenRuns(w) ==
    /\ pc[w] = "popped"
    /\ ~base_exists[buildfile[w]]
    /\ errors' = add_error(errors, Err(buildfile[w], current_queue[w], "CreateDir"))
    /\ total_msg' = add_error_message(errors')
    /\ reports' = [reports EXCEPT ![buildfile[w]] = @ + 1]
    /\ mkdir_failed' = [mkdir_failed EXCEPT ![buildfile[w]][current_queue[w]] = @ + 1]
    /\ started' = [started EXCEPT ![buildfile[w]][current_queue[w]] = @ + 1]
    /\ src_i' = [src_i EXCEPT ![w] = 0]
    /\ pc' = [pc EXCEPT ![w] = "run"]
    /\ UNCHANGED <<side_vars, config_vars, inits, base_exists, main_pc, ticker_pc, current_queue,
                   buildfile, queues, total_pos, total_len, total_done, lane, counter, result,
                   exit_code, outcome, pushed, counted, overtaken>>

\* builddir does not exist and fs::create_dir fails: add_error(nerr); continue
CreateDirFails(w) ==
    /\ pc[w] = "popped"
    /\ ~base_exists[buildfile[w]]
    /\ errors' = add_error(errors, Err(buildfile[w], current_queue[w], "CreateDir"))
    /\ total_msg' = add_error_message(errors')
    /\ reports' = [reports EXCEPT ![buildfile[w]] = @ + 1]
    /\ mkdir_failed' = [mkdir_failed EXCEPT ![buildfile[w]][current_queue[w]] = @ + 1]
    /\ buildfile' = [buildfile EXCEPT ![w] = 0]
    /\ pc' = [pc EXCEPT ![w] = "loop"]
    /\ UNCHANGED <<side_vars, config_vars, inits, base_exists, main_pc, ticker_pc, current_queue, src_i,
                   queues, total_pos, total_len, total_done, lane, counter, result,
                   exit_code, started, outcome, pushed, counted, overtaken>>

\* download_setup's iter_fn, one round of the loop over pkg.source(): the
\* download of source src_i succeeds, or fails and is passed to add_error
DownloadSource(w) ==
    /\ pc[w] = "run"
    /\ StageKind(current_queue[w]) = "download"
    /\ src_i[w] < nsources[buildfile[w]]
    /\ src_i' = [src_i EXCEPT ![w] = @ + 1]
    /\ \/ UNCHANGED <<errors, total_msg, reports>>
       \/ /\ errors' = add_error(errors, Err(buildfile[w], current_queue[w], "Source"))
          /\ total_msg' = add_error_message(errors')
          /\ reports' = [reports EXCEPT ![buildfile[w]] = @ + 1]
    /\ UNCHANGED <<side_vars, config_vars, inits, base_exists, main_pc, ticker_pc, pc, current_queue,
                   buildfile, queues, total_pos, total_len, total_done, lane, counter,
                   result, exit_code, started, outcome, pushed, counted, mkdir_failed,
                   overtaken>>

\* what an iter_fn can return at this point.  download_setup: Err only from
\* create_dir_all(download_dir), before the first source; Ok after the last
\* one.  build_setup: Ok or Err.
CanReturn(kind, res, i, n) ==
    IF kind = "download" THEN (IF res = "Ok" THEN i = n ELSE i = 0) ELSE TRUE

\* after Ok: push to the next queue if there is one, else total_bar.inc(1)
\* faulty variant: off by one, the last queue is never pushed to
PushesOnEarly(k, nq) == k + 2 < nq
PushesOn(k, nq) == k + 1 < nq
\* faulty variant: the item is pushed twice
PushToTwice(qs, k, r) == [qs EXCEPT ![k + 1] = Append(Append(@, r), r)]
PushTo(qs, k, r) == [qs EXCEPT ![k + 1] = Append(@, r)]
inc(pos, delta) == pos + delta

IterOk(w) ==
    LET r == buildfile[w]
        k == current_queue[w]
    IN  /\ pc[w] = "run"
        /\ CanReturn(StageKind(k), "Ok", src_i[w], nsources[r])
        /\ outcome' = [outcome EXCEPT ![r][k] = "Ok"]
        /\ IF PushesOn(k, queues_len(queues))
             THEN /\ queues' = PushTo(queues, k, r)
                  /\ pushed' = [pushed EXCEPT ![r][k + 1] = @ + 1]
                  /\ overtaken' = (overtaken \/
                                   \E v \in Workers \ {w} : current_queue[v] > k + 1)
                  /\ UNCHANGED <<total_pos, counted>>
             ELSE /\ total_pos' = inc(total_pos, 1)
                  /\ counted' = [counted EXCEPT ![r] = @ + 1]
                  /\ UNCHANGED <<queues, pushed, overtaken>>
        /\ buildfile' = [buildfile EXCEPT ![w] = 0]
        /\ pc' = [pc EXCEPT ![w] = "loop"]
        /\ UNCHANGED <<side_vars, config_vars, inits, base_exists, main_pc, ticker_pc, current_queue,
                       src_i, errors, total_len, total_msg, total_done, lane, counter,
                       result, exit_code, started, reports, mkdir_failed>>

\* iter_fn returned Err(f): add_error(f)
IterErr(w) ==
    LET r == buildfile[w]
        k == current_queue[w]
    IN  /\ pc[w] = "run"
        /\ CanReturn(StageKind(k), "Err", src_i[w], nsources[r])
        /\ outcome' = [outcome EXCEPT ![r][k] = "Err"]
        /\ errors' = add_error(errors, Err(r, k, "Iter"))
        /\ total_msg' = add_error_message(errors')
        /\ reports' = [reports EXCEPT ![r] = @ + 1]
        /\ buildfile' = [buildfile EXCEPT ![w] = 0]
        /\ pc' = [pc EXCEPT ![w] = "loop"]
        /\ UNCHANGED <<side_vars, config_vars, inits, base_exists, main_pc, ticker_pc, current_queue,
                       src_i, queues, total_pos, total_len, total_done, lane, counter,
                       result, exit_code, started, pushed, counted, mkdir_failed,
                       overtaken>>

\* ------------------------------------------------------------------ worker closure
\* progbar.finish_with_message("Done")
FinishLane(w) ==
    /\ pc[w] = "finish"
    /\ lane' = [lane EXCEPT ![w].msg = "Done"]
    /\ pc' = [pc EXCEPT ![w] = "dec"]
    /\ UNCHANGED <<side_vars, config_vars, hist_vars, base_exists, main_pc, ticker_pc,
                   current_queue, buildfile, src_i, queues, errors, total_pos,
                   total_len, total_msg, total_done, counter, result, exit_code>>

\* counter.fetch_sub(1) == 1: total_bar.finish_and_clear()
\* faulty variant: every worker finalizes the totals bar
IsLastAlways(old) == TRUE
IsLast(old) == old = 1

Decrement(w) ==
    /\ pc[w] = "dec"
    /\ counter' = counter - 1
    /\ total_done' = (total_done \/ IsLast(counter))
    /\ pc' = [pc EXCEPT ![w] = "done"]
    /\ UNCHANGED <<side_vars, config_vars, hist_vars, base_exists, main_pc, ticker_pc,
                   current_queue, buildfile, src_i, queues, errors, total_pos,
                   total_len, total_msg, lane, result, exit_code>>

\* ------------------------------------------------------------------ gather_buildfiles
\* strings are sequences of characters, paths sequences of components
Chars == {"a", "-"}
Strings(n) == UNION {[1..l -> Chars] : l \in 1..n}
RecipeIds == 1..MaxBatch
build_dir == <<"build_dir">>

\* Vec::dedup: consecutive equal elements collapse to the first
RECURSIVE dedup(_)
dedup(v) ==
    IF Len(v) <= 1 THEN v
    ELSE IF v[1] = v[2] THEN dedup(Tail(v))
    ELSE <<v[1]>> \o dedup(Tail(v))
\* Vec::sort on the identifiers
sort(v) == SortSeq(v, LAMBDA a, b : a < b)

\* format!("{}-{}", self.name, self.version)
format_name_version(name, version) == name \o <<"-">> \o version
\* Package::base_dir: config.build_dir.join(<name>-<version>)
base_dir(pkg) == Append(build_dir, format_name_version(pkg.name, pkg.version))

LayoutInit ==
    /\ EngineIdle
    /\ LayoutRest
    /\ recipe_files \in [RecipeIds -> [name : Strings(MaxNameLen),
                                       version : Strings(MaxNameLen)]]
    /\ pkgs \in UNION {[1..l -> RecipeIds] : l \in 0..MaxBatch}
    /\ packages = <<>>
    /\ gathered = <<>>
    /\ gather_pc = "collect"

\* packages.sort(); packages.dedup();
SortDedup ==
    /\ gather_pc = "collect"
    /\ packages' = dedup(sort(pkgs))
    /\ gather_pc' = "open"
    /\ UNCHANGED <<outside_layout, recipe_files, pkgs, gathered>>

\* .map(|pkg| BuildFile::open(config.pkgdir, pkg)), one element
OpenNext ==
    /\ gather_pc = "open"
    /\ Len(gathered) < Len(packages)
    /\ LET id == packages[Len(gathered) + 1]
       IN  gathered' = Append(gathered, [id |-> id, name |-> recipe_files[id].name,
                                         version |-> recipe_files[id].version])
    /\ UNCHANGED <<outside_layout, recipe_files, pkgs, packages, gather_pc>>

\* .collect(): the batch is handed to the engine
Collect ==
    /\ gather_pc = "open"
    /\ Len(gathered) = Len(packages)
    /\ gather_pc' = "done"
    /\ UNCHANGED <<outside_layout, recipe_files, pkgs, packages, gathered>>

LayoutNext == SortDedup \/ OpenNext \/ Collect

LayoutSpec == LayoutInit /\ [][LayoutNext]_vars

\* ------------------------------------------------------------------ download_setup
\* the file system the download stage sees: absolute paths are component
\* sequences starting with "/"; /r is the recipe root (config.pkgbuild_dir),
\* /r/l is a symbolic link to /o
FsPaths == {<<"/">>, <<"/", "r">>, <<"/", "r", "f">>, <<"/", "r", "p">>,
            <<"/", "r", "p", "g">>, <<"/", "o">>}
Links == (<<"/", "r", "l">> :> <<"/", "o">>)
pkgbuild_dir == <<"/", "r">>

\* Path::join: an absolute argument replaces the base
join(base, path) == IF path # <<>> /\ path[1] = "/" THEN path ELSE base \o path

\* Path::canonicalize: "." and ".." and links resolved, every prefix must exist;
\* <<>> stands for the io::Error
RECURSIVE resolve(_, _)
resolve(stack, rest) ==
    IF stack = <<>> \/ rest = <<>> THEN stack
    ELSE LET c == Head(rest)
             into == IF Append(stack, c) \in DOMAIN Links THEN Links[Append(stack, c)]
                     ELSE Append(stack, c)
             next == IF c = "." THEN stack
                     ELSE IF c = ".."
                            THEN (IF Len(stack) > 1 THEN SubSeq(stack, 1, Len(stack) - 1)
                                  ELSE stack)
                     ELSE IF into \in FsPaths THEN into ELSE <<>>
         IN  resolve(next, Tail(rest))
canonicalize(path) == resolve(<<"/">>, Tail(path))

\* Path::starts_with: whole components
starts_with(path, base) ==
    Len(base) <= Len(path) /\ SubSeq(path, 1, Len(base)) = base

\* the source strings: URLs by scheme and last path segment, or a file path
Schemes == {"http", "https", "git+http", "git+https", "git", "git+ssh", "ftp"}
UrlItems == [scheme : Schemes, filename : {"", "x"}, path : {<<>>}]
FileItems == [scheme : {""}, filename : {""},
              path : {<<"f">>, <<"g">>, <<"..", "o">>, <<"..", "f">>, <<"l">>,
                      <<"/", "o">>, <<".", "f">>}]
SourceItems == UrlItems \cup FileItems

Outcome(res, err, path, cp) == [res |-> res, err |-> err, path |-> path, copied |-> cp]
OkOutcome == Outcome("Ok", "", <<>>, {})

\* Downloader::download: the results it can return on src_item
download(src_item, parent) ==
    IF src_item.scheme # ""
      THEN IF src_item.filename = "" THEN {Outcome("Err", "Package", <<>>, {})}
           ELSE IF src_item.scheme \in {"http", "https"}
                  THEN {OkOutcome, Outcome("Err", "Reqwest", <<>>, {})}
           ELSE IF src_item.scheme \in {"git+http", "git+https", "git", "git+ssh"}
                  THEN {OkOutcome, Outcome("Err", "Git", <<>>, {})}
           ELSE {Outcome("Err", "UnknownScheme", <<>>, {})}
      ELSE LET root == canonicalize(pkgbuild_dir)
               joined == join(join(root, parent), src_item.path)
               filepath == canonicalize(joined)
           IN  IF root = <<>> THEN {Outcome("Err", "Canonicalize", pkgbuild_dir, {})}
               ELSE IF filepath = <<>> THEN {Outcome("Err", "Canonicalize", joined, {})}
               ELSE IF starts_with(filepath, root)
                      THEN {Outcome("Ok", "", <<>>, {filepath}),
                            Outcome("Err", "Util", <<>>, {})}
               ELSE {Outcome("Err", "InvalidSource", filepath, {})}

FetchInit ==
    /\ EngineIdle
    /\ FetchRest
    /\ sources \in UNION {[1..l -> SourceItems] : l \in 0..MaxFetchSources}
    /\ parent_dir \in {<<>>, <<"p">>}
    /\ fetch_pc = "mkdir"
    /\ fetch_i = 0
    /\ attempts = <<>>
    /\ fetch_errors = <<>>
    /\ copied = {}
    /\ fetch_result = "none"

\* fs::create_dir_all(&download_dir) succeeds
FetchCreateDirOk ==
    /\ fetch_pc = "mkdir"
    /\ fetch_pc' = "loop"
    /\ UNCHANGED <<outside_fetch, sources, parent_dir, fetch_i, attempts,
                   fetch_errors, copied, fetch_result>>

\* fs::create_dir_all(&download_dir) fails: the iter_fn returns Err(CreateDir)
FetchCreateDirFails ==
    /\ fetch_pc = "mkdir"
    /\ fetch_result' = "Err"
    /\ fetch_pc' = "returned"
    /\ UNCHANGED <<outside_fetch, sources, parent_dir, fetch_i, attempts,
                   fetch_errors, copied>>

\* faulty variant: the error of a failed source is dropped
report_none(errs, i, o) == errs
\* if let Err(f) = self.download(...) { add_error(f.into()); }
report(errs, i, o) ==
    IF o.res = "Err" THEN Append(errs, [src |-> i, kind |-> o.err, path |-> o.path])
    ELSE errs

\* one round of the loop: self.download(...), add_error on Err
FetchDownload ==
    /\ fetch_pc = "loop"
    /\ fetch_i < Len(sources)
    /\ fetch_i' = fetch_i + 1
    /\ attempts' = Append(attempts, fetch_i + 1)
    /\ \E o \in download(sources[fetch_i + 1], parent_dir) :
           /\ copied' = copied \cup o.copied
           /\ fetch_errors' = report(fetch_errors, fetch_i + 1, o)
    /\ UNCHANGED <<outside_fetch, sources, parent_dir, fetch_pc, fetch_result>>

\* the iterator is exhausted: Ok(())
FetchReturn ==
    /\ fetch_pc = "loop"
    /\ fetch_i = Len(sources)
    /\ fetch_result' = "Ok"
    /\ fetch_pc' = "returned"
    /\ UNCHANGED <<outside_fetch, sources, parent_dir, fetch_i, attempts,
                   fetch_errors, copied>>

FetchNext == FetchCreateDirOk \/ FetchCreateDirFails \/ FetchDownload \/ FetchReturn

FetchSpec == FetchInit /\ [][FetchNext]_vars

\* ------------------------------------------------------------------ download_http
Bytes == {"x", "y"}
Contents(n) == UNION {[1..l -> Bytes] : l \in 0..n}

\* the HEAD answers: the request failed, or headers came back
Heads(len) ==
    {[ok |-> FALSE, accept_ranges |-> "absent", content_length |-> {}]}
    \cup [ok : {TRUE}, accept_ranges : {"absent", "none", "bytes"},
          content_length : {{}, {len}}]

\* Option::and
and(opt, optb) == IF opt = {} THEN {} ELSE optb

\* Downloader::supports_range: send().ok(), then
\* get::<AcceptRanges>().map(contains(Bytes) as u64).and(get::<ContentLength>())
supports_range(h) ==
    IF ~h.ok THEN {}
    ELSE and(IF h.accept_ranges = "absent" THEN {}
             ELSE {IF h.accept_ranges = "bytes" THEN 1 ELSE 0},
             h.content_length)

HttpInit ==
    /\ EngineIdle
    /\ HttpRest
    /\ payload \in Contents(MaxPayload)
    /\ head \in Heads(Len(payload))
    /\ honours_range \in BOOLEAN
    /\ clobber \in BOOLEAN
    /\ dest \in {NoFile} \cup [exists : {TRUE}, bytes : Contents(MaxPayload + 1)]
    /\ http_pc = "start"
    /\ headers = {}
    /\ open_opts = NoOpts
    /\ resp = <<>>
    /\ run = 1
    /\ http_result = <<"none", "none">>
    /\ sent = <<"no GET", "no GET">>
    /\ prior = dest
    /\ deleted = -1

\* faulty variant: config.clobber is not looked at
MayResumeAnyway(file, clob) == file.exists
\* filepath.exists() && !config.clobber
MayResume(file, clob) == file.exists /\ ~clob

\* the part of download_http before the GET: the file is complete, or Range
\* and append are set, or create, truncate and write are
HttpPlan ==
    /\ http_pc = "start"
    /\ LET length == supports_range(head)
           filelen == Len(dest.bytes)
           resume == MayResume(dest, clobber) /\ length # {}
       IN  IF resume /\ unwrap(length) = filelen
             THEN /\ http_result' = [http_result EXCEPT ![run] = "Ok"]
                  /\ http_pc' = "returned"
                  /\ UNCHANGED <<headers, open_opts>>
             ELSE /\ headers' = IF resume /\ filelen < unwrap(length) THEN {filelen}
                                 ELSE {}
                  /\ open_opts' = IF headers' # {}
                                     THEN [NoOpts EXCEPT !.append = TRUE]
                                     ELSE [NoOpts EXCEPT !.create = TRUE,
                                                         !.truncate = TRUE,
                                                         !.write = TRUE]
                  /\ http_pc' = "get"
                  /\ UNCHANGED http_result
    /\ UNCHANGED <<outside_http, payload, head, honours_range,
                   clobber, dest, resp, run, sent, prior, deleted>>

\* fs::metadata(&filepath) fails after supports_range returned Some
HttpMetadataFails ==
    /\ http_pc = "start"
    /\ MayResume(dest, clobber)
    /\ supports_range(head) # {}
    /\ http_result' = [http_result EXCEPT ![run] = "Metadata"]
    /\ http_pc' = "returned"
    /\ UNCHANGED <<outside_http, payload, head, honours_range,
                   clobber, dest, headers, open_opts, resp, run, sent, prior, deleted>>

\* what the server sends back for a GET with these headers
body(hs) ==
    IF hs # {} /\ honours_range /\ unwrap(hs) <= Len(payload)
      THEN SubSeq(payload, unwrap(hs) + 1, Len(payload))
      ELSE payload

\* self.client.get(url).headers(headers).send() and error_for_status succeed
HttpGet ==
    /\ http_pc = "get"
    /\ sent' = [sent EXCEPT ![run] = headers]
    /\ resp' = body(headers)
    /\ http_pc' = "open"
    /\ UNCHANGED <<outside_http, payload, head, honours_range,
                   clobber, dest, headers, open_opts, run, http_result, prior, deleted>>

\* the GET fails: Err(Reqwest), the destination is not touched
HttpGetFails ==
    /\ http_pc = "get"
    /\ sent' = [sent EXCEPT ![run] = headers]
    /\ http_result' = [http_result EXCEPT ![run] = "Reqwest"]
    /\ http_pc' = "returned"
    /\ UNCHANGED <<outside_http, payload, head, honours_range,
                   clobber, dest, headers, open_opts, resp, run, prior, deleted>>

\* OpenOptions::open: truncate empties the file, create makes it, append keeps it
open(opts, file) ==
    IF opts.truncate /\ (file.exists \/ opts.create) THEN [exists |-> TRUE, bytes |-> <<>>]
    ELSE file

\* open_opts.open(&filepath) succeeds
HttpOpen ==
    /\ http_pc = "open"
    /\ dest.exists \/ open_opts.create
    /\ dest' = open(open_opts, dest)
    /\ http_pc' = "write"
    /\ UNCHANGED <<outside_http, payload, head, honours_range,
                   clobber, headers, open_opts, resp, run, http_result, sent, prior,
                   deleted>>

\* open_opts.open(&filepath) fails: Err(TargetFile)
HttpOpenFails ==
    /\ http_pc = "open"
    /\ http_result' = [http_result EXCEPT ![run] = "TargetFile"]
    /\ http_pc' = "returned"
    /\ UNCHANGED <<outside_http, payload, head, honours_range,
                   clobber, dest, headers, open_opts, resp, run, sent, prior, deleted>>

\* the read loop: an opened file is written at its end (append) or from its
\* start (just truncated), so the bytes read are added to what it holds
\* faulty variant: the bytes read replace what the file holds
write_all_over(file, buf) == [file EXCEPT !.bytes = buf]
write_all(file, buf) == [file EXCEPT !.bytes = @ \o buf]

\* the loop reads the whole body and writes it: Ok(())
HttpWriteAll ==
    /\ http_pc = "write"
    /\ dest' = write_all(dest, resp)
    /\ http_result' = [http_result EXCEPT ![run] = "Ok"]
    /\ http_pc' = "returned"
    /\ UNCHANGED <<outside_http, payload, head, honours_range,
                   clobber, headers, open_opts, resp, run, sent, prior, deleted>>

\* resp.read fails after n bytes were written: Err(Download)
HttpReadFails ==
    /\ http_pc = "write"
    /\ \E n \in 0..(Len(resp) - 1) : dest' = write_all(dest, SubSeq(resp, 1, n))
    /\ http_result' = [http_result EXCEPT ![run] = "Download"]
    /\ http_pc' = "returned"
    /\ UNCHANGED <<outside_http, payload, head, honours_range,
                   clobber, headers, open_opts, resp, run, sent, prior, deleted>>

\* between the runs the last k bytes of the destination are deleted
HttpDeleteTail ==
    /\ http_pc = "returned"
    /\ run = 1
    /\ deleted = -1
    /\ dest.exists
    /\ \E k \in 0..Len(dest.bytes) :
           /\ dest' = [dest EXCEPT !.bytes = SubSeq(@, 1, Len(@) - k)]
           /\ deleted' = k
    /\ UNCHANGED <<outside_http, payload, head, honours_range,
                   clobber, http_pc, headers, open_opts, resp, run, http_result, sent,
                   prior>>

\* download_http is called again on the same URL
HttpRerun ==
    /\ http_pc = "returned"
    /\ run = 1
    /\ run' = 2
    /\ http_pc' = "start"
    /\ headers' = {}
    /\ open_opts' = NoOpts
    /\ resp' = <<>>
    /\ UNCHANGED <<outside_http, payload, head, honours_range,
                   clobber, dest, http_result, sent, prior, deleted>>

HttpNext ==
    \/ HttpPlan
    \/ HttpMetadataFails
    \/ HttpGet
    \/ HttpGetFails
    \/ HttpOpen
    \/ HttpOpenFails
    \/ HttpWriteAll
    \/ HttpReadFails
    \/ HttpDeleteTail
    \/ HttpRerun

HttpSpec == HttpInit /\ [][HttpNext]_vars

\* ------------------------------------------------------------------ download_git
\* a fragment is a string cut into tokens: the three prefixes the code looks
\* for, another key, and a name
Tokens == {"branch=", "tag=", "commit=", "rev=", "m"}
Fragments(n) == UNION {[1..l -> Tokens] : l \in 0..n}

\* download_path: nothing, a directory that is no repository, or a repository
\* whose HEAD cannot be read, is a branch, or is detached
NoPath == [exists |-> FALSE, repo |-> FALSE, head |-> "none"]
GitDests == {NoPath, [exists |-> TRUE, repo |-> FALSE, head |-> "none"]}
            \cup [exists : {TRUE}, repo : {TRUE}, head : {"none", "branch", "detached"}]
Cloned == [exists |-> TRUE, repo |-> TRUE, head |-> "branch"]

Call(op, arg) == [op |-> op, arg |-> arg]

GitInit ==
    /\ EngineIdle
    /\ GitRest
    /\ git_url \in [fragment : OptionOf(Fragments(MaxFragment))]
    /\ fragment = {}
    /\ git_clobber \in BOOLEAN
    /\ git_dest \in GitDests
    /\ git_prior = git_dest
    /\ git_pc = "start"
    /\ git_calls = <<>>
    /\ git_result = "none"

\* let fragment = url.fragment().map(|v| v.to_owned()); url.set_fragment(None);
GitTakeFragment ==
    /\ git_pc = "start"
    /\ fragment' = git_url.fragment
    /\ git_url' = [git_url EXCEPT !.fragment = {}]
    /\ git_pc' = "exists"
    /\ UNCHANGED <<outside_git, git_clobber, git_dest, git_prior, git_calls, git_result>>

\* faulty variant: config.clobber is not looked at
ReusesRepoAnyway(d, clob) == d.repo /\ d.head = "branch"
\* !config.clobber, Repository::open is Ok, repo.head() is Ok and is_branch()
\* (a branch name is taken to be valid UTF-8, so that head.name() is Some)
ReusesRepo(d, clob) == ~clob /\ d.repo /\ d.head = "branch"

\* the destination is a repository on a branch: remote.fetch(&[&name]) succeeds
GitFetch ==
    /\ git_pc = "exists"
    /\ git_dest.exists
    /\ ReusesRepo(git_dest, git_clobber)
    /\ git_calls' = Append(git_calls, Call("fetch", <<"origin", "HEAD's branch">>))
    /\ git_pc' = "checkout"
    /\ UNCHANGED <<outside_git, git_url, fragment, git_clobber, git_dest, git_prior,
                   git_result>>

\* find_remote or fetch fails: Err(Git)
GitFetchFails ==
    /\ git_pc = "exists"
    /\ git_dest.exists
    /\ ReusesRepo(git_dest, git_clobber)
    /\ git_calls' = Append(git_calls, Call("fetch", <<"origin", "HEAD's branch">>))
    /\ git_result' = "Git"
    /\ git_pc' = "returned"
    /\ UNCHANGED <<outside_git, git_url, fragment, git_clobber, git_dest, git_prior>>

\* the destination exists and is not reused: fs::remove_dir_all succeeds
GitRemove ==
    /\ git_pc = "exists"
    /\ git_dest.exists
    /\ ~ReusesRepo(git_dest, git_clobber)
    /\ git_calls' = Append(git_calls, Call("remove_dir_all", <<>>))
    /\ git_dest' = NoPath
    /\ git_pc' = "clone"
    /\ UNCHANGED <<outside_git, git_url, fragment, git_clobber, git_prior, git_result>>

\* fs::remove_dir_all fails: Err(RemoveDir)
GitRemoveFails ==
    /\ git_pc = "exists"
    /\ git_dest.exists
    /\ ~ReusesRepo(git_dest, git_clobber)
    /\ git_calls' = Append(git_calls, Call("remove_dir_all", <<>>))
    /\ git_result' = "RemoveDir"
    /\ git_pc' = "returned"
    /\ UNCHANGED <<outside_git, git_url, fragment, git_clobber, git_dest, git_prior>>

\* RepoBuilder::clone(url.as_str(), &download_path) is reached
AtClone == git_pc = "clone" \/ (git_pc = "exists" /\ ~git_dest.exists)

GitClone ==
    /\ AtClone
    /\ git_calls' = Append(git_calls, Call("clone", git_url))
    /\ git_dest' = Cloned
    /\ git_pc' = "checkout"
    /\ UNCHANGED <<outside_git, git_url, fragment, git_clobber, git_prior, git_result>>

\* the clone fails: Err(Git)
GitCloneFails ==
    /\ AtClone
    /\ git_calls' = Append(git_calls, Call("clone", git_url))
    /\ git_result' = "Git"
    /\ git_pc' = "returned"
    /\ UNCHANGED <<outside_git, git_url, fragment, git_clobber, git_dest, git_prior>>

\* str::trim_left_matches: every leading repetition of the pattern is removed
RECURSIVE trim_left_matches(_, _)
trim_left_matches(str, pat) ==
    IF pat # <<>> /\ starts_with(str, pat)
      THEN trim_left_matches(SubSeq(str, Len(pat) + 1, Len(str)), pat)
      ELSE str

\* the calls checkout_fragment makes for a fragment of one of the three forms,
\* <<>> for any other
fragment_calls(f) ==
    IF starts_with(f, <<"branch=">>)
      THEN <<Call("set_head", <<"refs/remotes/origin/">> \o trim_left_matches(f, <<"branch=">>))>>
    ELSE IF starts_with(f, <<"tag=">>)
      THEN <<Call("revparse_single", trim_left_matches(f, <<"tag=">>)),
             Call("peel_to_tag", <<>>), Call("peel", <<>>),
             Call("set_head_detached", <<>>)>>
    ELSE IF starts_with(f, <<"commit=">>)
      THEN <<Call("revparse_single", trim_left_matches(f, <<"commit=">>)),
             Call("peel_to_commit", <<>>), Call("set_head_detached", <<>>)>>
    ELSE <<>>

\* Downloader::checkout_fragment: the calls made and the result; a call that
\* fails is the last one and gives Err(Git)
checkout_fragment(frag) ==
    IF frag = {} THEN {[calls |-> <<>>, res |-> "Ok"]}
    ELSE IF fragment_calls(unwrap(frag)) = <<>>
      THEN {[calls |-> <<>>, res |-> "UnknownFragment"]}
    ELSE LET all == Append(fragment_calls(unwrap(frag)), Call("checkout_head", <<"force">>))
         IN  {[calls |-> all, res |-> "Ok"]}
             \cup {[calls |-> SubSeq(all, 1, j), res |-> "Git"] : j \in 1..Len(all)}

\* self.checkout_fragment(pkg, url, &repo, fragment)
GitCheckout ==
    /\ git_pc = "checkout"
    /\ \E o \in checkout_fragment(fragment) :
           /\ git_calls' = git_calls \o o.calls
           /\ git_result' = o.res
    /\ git_pc' = "returned"
    /\ UNCHANGED <<outside_git, git_url, fragment, git_clobber, git_dest, git_prior>>

GitNext ==
    \/ GitTakeFragment
    \/ GitFetch
    \/ GitFetchFails
    \/ GitRemove
    \/ GitRemoveFails
    \/ GitClone
    \/ GitCloneFails
    \/ GitCheckout

GitSpec == GitInit /\ [][GitNext]_vars

\* ------------------------------------------------------------------ Archiver::extract
\* a file name is a string cut into tokens: the suffixes the code looks for,
\* ".tar", and a stem; <<>> is the empty name file_path rejects
Suffixes == {".tar", ".gz", ".bz2", ".xz", ".tgz", ".tbz", ".txz"}
Filenames(n) == UNION {[1..l -> Suffixes \cup {"x"}] : l \in 0..n}

\* faulty variant: a plain .tar is unpacked too
IS_TAR_PLAIN == {<<".tar", ".gz">>, <<".tar", ".bz2">>, <<".tar", ".xz">>, <<".tgz">>,
                 <<".tbz">>, <<".txz">>, <<".tar">>}
IS_TAR == {<<".tar", ".gz">>, <<".tar", ".bz2">>, <<".tar", ".xz">>, <<".tgz">>,
           <<".tbz">>, <<".txz">>}
IS_GZ == {<<".gz">>, <<".tgz">>}
IS_BZIP2 == {<<".bz2">>, <<".tbz">>}
IS_XZ == {<<".xz">>, <<".txz">>}

\* <[u8]>::ends_with
ends_with(str, ext) ==
    /\ Len(ext) <= Len(str)
    /\ SubSeq(str, Len(str) - Len(ext) + 1, Len(str)) = ext

\* Archiver::try_extraction is Some(action(build_path)) for these names, None
\* for the others
try_extraction(filename, exts) == \E ext \in exts : ends_with(filename, ext)

\* the first of the three try_extraction calls that is Some: Option::or_else
\* does not look at the later ones
decoder(filename) ==
    IF try_extraction(filename, IS_GZ) THEN {"GzDecoder"}
    ELSE IF try_extraction(filename, IS_BZIP2) THEN {"BzDecoder"}
    ELSE IF try_extraction(filename, IS_XZ) THEN {"XzDecoder"}
    ELSE {}

\* what a directory or file of the recipe's base directory is
Absent == [exists |-> FALSE, form |-> "none", holds |-> {}]
Entry(form, holds) == [exists |-> TRUE, form |-> form, holds |-> holds]
Item(kind, id) == [kind |-> kind, id |-> id]
Stale == Item("stale", 0)       \* what an earlier run left
Paths == {"build", "pkg", "log", "stdout.log", "stderr.log", "tar", "tar.xz"}

Op(op, src, arg) == [op |-> op, src |-> src, arg |-> arg]
Res(kind, cause, cmd, code) == [kind |-> kind, cause |-> cause, cmd |-> cmd, code |-> code]
NoCmd == Item("", 0)
NoResult == Res("none", "", NoCmd, {})
Ok == Res("Ok", "", NoCmd, {})
ArchiveErr(cause) == Res("Archive", cause, NoCmd, {})

\* the body of extract's loop for source i: the operations done, the result
\* and what was put into build/.  A failing operation is the last one.
extract_source(i, filename) ==
    LET dec == decoder(filename)
        decompress == IF dec = {} THEN <<>> ELSE <<Op("decompress", i, unwrap(dec))>>
        input == IF dec = {} THEN "build_path" ELSE "file"
        untar == Append(decompress, Op("extract_tar", i, input))
        copy == <<Op("copy_dir", i, "build_path")>>
        out(ops, res, adds) == [ops |-> ops, res |-> res, adds |-> adds]
    IN  IF filename = <<>> THEN {out(<<>>, "Package", {})}
        ELSE {out(decompress, k, {}) : k \in IF dec = {} THEN {}
                                              ELSE {"TempFile", "OpenFile", "Decompress"}}
             \cup
             (IF try_extraction(filename, IS_TAR)
                THEN {out(untar, "Ok", {Item("unpacked", i)})}
                     \cup {out(untar, "Extract", a) : a \in {{}, {Item("partial", i)}}}
                     \cup {out(untar, "OpenFile", {}) : k \in IF dec = {} THEN {1} ELSE {}}
              ELSE IF dec = {}
                THEN {out(copy, "Ok", {Item("copied", i)})}
                     \cup {out(copy, "Util", a) : a \in {{}, {Item("partial", i)}}}
              ELSE {out(decompress, "Ok", {})})

\* the entries of earlier sources that unpacking or copying source i can write
\* over: tar::Archive::unpack and fs::copy replace a file that is already at
\* the path they write.  Two copied sources with one file name are one file of
\* src/, so a copy writes over unpacked entries only.
overwritable(holds, o) ==
    IF o.adds = {} THEN {}
    ELSE {it \in holds :
             \/ it.kind = "unpacked"
             \/ it.kind = "copied" /\ o.ops[Len(o.ops)].op = "extract_tar"}

\* faulty variant: the entries written over are gone from build/
write_over_removing(holds, over) == holds \ over
\* an entry written over stays where it is, with the later source's content
write_over(holds, over) == (holds \ over) \cup {Item("clobbered", it.id) : it \in over}

\* faulty variant: the directory is created only when it is missing
recreate_if_missing(t, p) == [t EXCEPT ![p] = IF t[p].exists THEN t[p] ELSE Entry("dir", {})]
\* if path.exists() { fs::remove_dir_all(path) }; fs::create_dir(path)
recreate(t, p) == [t EXCEPT ![p] = Entry("dir", {})]

Cmds(phase, n) == [i \in 1..n |-> Item(phase, i)]
Phase(phase) == OptionOf({Cmds(phase, n) : n \in 0..MaxCmds})
PhaseLen(step) == IF step = {} THEN 0 ELSE Len(unwrap(step))
NoPhases == [prepare |-> {}, build |-> {}, install |-> {}]
\* the base directory as earlier runs may have left it: directories with
\* something in them, files with something in them, or nothing
PriorTrees ==
    {t \in [Paths -> {Absent, Entry("dir", {}), Entry("dir", {Stale}), Entry("file", {Stale})}] :
        /\ t["build"] \in {Absent, Entry("dir", {Stale})}
        /\ t["pkg"] \in {Absent, Entry("dir", {Stale})}
        /\ t["log"] \in {Absent, Entry("dir", {Stale})}
        /\ t["stdout.log"] \in {Absent, Entry("file", {Stale})}
        /\ t["stderr.log"] = t["stdout.log"]
        /\ (t["stdout.log"].exists => t["log"].exists)
        /\ t["tar"] \in {Absent, Entry("file", {Stale})}
        /\ t["tar.xz"] \in {Absent, Entry("file", {Stale})}}

\* Archiver::extract on one or two sources with every file name
ExtractInit ==
    /\ EngineIdle
    /\ BuildRest
    /\ \E src \in {<<f>> : f \in Filenames(MaxSuffixes)}
                  \cup {<<f, g>> : f, g \in {<<>>, <<"x">>, <<"x", ".tar", ".gz">>, <<"x", ".xz">>}},
          skip \in BOOLEAN :
          recipe = [name |-> "n", source |-> src, skip_extract |-> skip] @@ NoPhases
    /\ verbose = FALSE
    /\ tree \in {t \in PriorTrees : \A p \in Paths \ {"build"} : ~t[p].exists}
    /\ tree_prior = tree
    /\ b_pc = "extract"
    /\ b_src = 0
    /\ b_step = 0
    /\ b_cmd = 0
    /\ b_ops = <<>>
    /\ b_result = NoResult
    /\ b_errors = <<>>
    /\ b_total = 0
    /\ b_snapshot = {}

\* target_path is removed if it exists and created; with skip_extract that is all
ExtractReset ==
    /\ b_pc = "extract"
    /\ tree' = recreate(tree, "build")
    /\ IF recipe.skip_extract
         THEN b_pc' = "logs" /\ b_src' = b_src
         ELSE b_pc' = "source" /\ b_src' = 1
    /\ UNCHANGED <<outside_build, recipe, verbose, tree_prior, b_step, b_cmd, b_ops,
                   b_result, b_errors, b_total, b_snapshot>>

\* fs::remove_dir_all(&target_path) fails
ExtractRemoveDirFails ==
    /\ b_pc = "extract"
    /\ tree["build"].exists
    /\ b_result' = ArchiveErr("RemoveDir")
    /\ b_pc' = "returned"
    /\ UNCHANGED <<outside_build, recipe, verbose, tree, tree_prior, b_src, b_step, b_cmd,
                   b_ops, b_errors, b_total, b_snapshot>>

\* fs::create_dir(&target_path) fails
ExtractCreateDirFails ==
    /\ b_pc = "extract"
    /\ tree' = [tree EXCEPT !["build"] = Absent]
    /\ b_result' = ArchiveErr("CreateDir")
    /\ b_pc' = "returned"
    /\ UNCHANGED <<outside_build, recipe, verbose, tree_prior, b_src, b_step, b_cmd,
                   b_ops, b_errors, b_total, b_snapshot>>

\* one round of `for src in pkg.source()`
ExtractSource ==
    /\ b_pc = "source"
    /\ b_src <= Len(recipe.source)
    /\ \E o \in extract_source(b_src, recipe.source[b_src]) :
          /\ b_ops' = b_ops \o o.ops
          /\ \E over \in SUBSET overwritable(tree["build"].holds, o) :
                 tree' = [tree EXCEPT !["build"].holds = write_over(@, over) \cup o.adds]
          /\ IF o.res = "Ok"
               THEN b_src' = b_src + 1 /\ UNCHANGED <<b_pc, b_result>>
               ELSE b_pc' = "returned" /\ b_result' = ArchiveErr(o.res) /\ b_src' = b_src
    /\ UNCHANGED <<outside_build, recipe, verbose, tree_prior, b_step, b_cmd, b_errors,
                   b_total, b_snapshot>>

\* the loop is over: extract returns Ok(())
ExtractDone ==
    /\ b_pc = "source"
    /\ b_src > Len(recipe.source)
    /\ b_pc' = "logs"
    /\ UNCHANGED <<outside_build, recipe, verbose, tree, tree_prior, b_src, b_step, b_cmd,
                   b_ops, b_result, b_errors, b_total, b_snapshot>>

ExtractNext ==
    \/ ExtractReset
    \/ ExtractRemoveDirFails
    \/ ExtractCreateDirFails
    \/ ExtractSource
    \/ ExtractDone

ExtractSpec == ExtractInit /\ [][ExtractNext]_vars

\* ------------------------------------------------------------------ Builder::build_setup
\* faulty variant: the build phase comes first
steps_build_first(pkg) ==
    <<[cur_dir |-> "build", step |-> pkg.build],
      [cur_dir |-> "src", step |-> pkg.prepare],
      [cur_dir |-> "build", step |-> pkg.install]>>
\* (download_dir, prepare), (archive_out_dir, build), (archive_out_dir, install)
steps(pkg) ==
    <<[cur_dir |-> "src", step |-> pkg.prepare],
      [cur_dir |-> "build", step |-> pkg.build],
      [cur_dir |-> "build", step |-> pkg.install]>>

\* the build stage's iter_fn on one recipe, for every state earlier runs left
BuildInit ==
    /\ EngineIdle
    /\ BuildRest
    /\ \E src \in {<<>>, <<<<"x", ".tar", ".gz">>>>}, skip \in BOOLEAN,
          prep \in Phase("prepare"), bld \in Phase("build"), inst \in Phase("install") :
          /\ skip => src # <<>>
          /\ PhaseLen(prep) + PhaseLen(bld) + PhaseLen(inst) <= MaxRecipeCmds
          /\ recipe = [name |-> "n", source |-> src, skip_extract |-> skip,
                       prepare |-> prep, build |-> bld, install |-> inst]
    /\ verbose \in BOOLEAN
    /\ tree \in {t \in PriorTrees : t["tar"] = t["tar.xz"] /\ t["log"] = t["pkg"]}
    /\ tree_prior = tree
    /\ b_pc = "extract"
    /\ b_src = 0
    /\ b_step = 0
    /\ b_cmd = 0
    /\ b_ops = <<>>
    /\ b_result = NoResult
    /\ b_errors = <<>>
    /\ b_total = 0
    /\ b_snapshot = {}

\* if !logdir.exists() { fs::create_dir_all(&logdir) }
create_dir_all(dir) == IF dir.exists THEN dir ELSE Entry("dir", {})

\* the log directory is made if missing and both log files are created empty,
\* unless verbose
BOpenLogs ==
    /\ b_pc = "logs"
    /\ tree' = IF verbose THEN tree
               ELSE [tree EXCEPT !["log"] = create_dir_all(@),
                                 !["stdout.log"] = Entry("file", {}),
                                 !["stderr.log"] = Entry("file", {})]
    /\ b_pc' = "pkgdir"
    /\ UNCHANGED <<outside_build, recipe, verbose, tree_prior, b_src, b_step, b_cmd, b_ops,
                   b_result, b_errors, b_total, b_snapshot>>

\* fs::create_dir_all(&logdir) fails
BLogDirFails ==
    /\ b_pc = "logs"
    /\ ~verbose
    /\ ~tree["log"].exists
    /\ b_result' = Res("CreateDir", "log", NoCmd, {})
    /\ b_pc' = "returned"
    /\ UNCHANGED <<outside_build, recipe, verbose, tree, tree_prior, b_src, b_step, b_cmd,
                   b_ops, b_errors, b_total, b_snapshot>>

\* File::create fails for stdout.log, or for stderr.log after stdout.log was made
BLogFileFails ==
    /\ b_pc = "logs"
    /\ ~verbose
    /\ \E which \in {"stdout.log", "stderr.log"} :
          /\ tree' = IF which = "stdout.log"
                       THEN [tree EXCEPT !["log"] = create_dir_all(@)]
                       ELSE [tree EXCEPT !["log"] = create_dir_all(@),
                                         !["stdout.log"] = Entry("file", {})]
          /\ b_result' = Res("LogFile", which, NoCmd, {})
    /\ b_pc' = "returned"
    /\ UNCHANGED <<outside_build, recipe, verbose, tree_prior, b_src, b_step, b_cmd, b_ops,
                   b_errors, b_total, b_snapshot>>

\* pkgdir is removed if it exists and created
BPkgDir ==
    /\ b_pc = "pkgdir"
    /\ tree' = recreate(tree, "pkg")
    /\ b_pc' = "steps"
    /\ b_step' = 1
    /\ b_cmd' = 1
    /\ UNCHANGED <<outside_build, recipe, verbose, tree_prior, b_src, b_ops, b_result,
                   b_errors, b_total, b_snapshot>>

\* fs::remove_dir_all(&pkgdir) fails
BPkgRemoveFails ==
    /\ b_pc = "pkgdir"
    /\ tree["pkg"].exists
    /\ b_result' = Res("RemoveDir", "pkg", NoCmd, {})
    /\ b_pc' = "returned"
    /\ UNCHANGED <<outside_build, recipe, verbose, tree, tree_prior, b_src, b_step, b_cmd,
                   b_ops, b_errors, b_total, b_snapshot>>

\* fs::create_dir(&pkgdir) fails
BPkgCreateFails ==
    /\ b_pc = "pkgdir"
    /\ tree' = [tree EXCEPT !["pkg"] = Absent]
    /\ b_result' = Res("CreateDir", "pkg", NoCmd, {})
    /\ b_pc' = "returned"
    /\ UNCHANGED <<outside_build, recipe, verbose, tree_prior, b_src, b_step, b_cmd, b_ops,
                   b_errors, b_total, b_snapshot>>

\* the command run_step is at, if there is one
CommandDue ==
    /\ b_pc = "steps"
    /\ steps(recipe)[b_step].step # {}
    /\ b_cmd <= Len(unwrap(steps(recipe)[b_step].step))

\* what child.wait() gives: the exit code, or none when a signal ended the child
Statuses == {[waited |-> TRUE, code |-> c] : c \in {{0}, {1}, {}}}
NotWaited == [waited |-> FALSE, code |-> {}]

\* faulty variant: the exit status is not looked at
command_result_any(name, cmd, status) == Ok
\* status.success() is Ok(()), anything else Err(Command(name, cmd, status.code()))
command_result(name, cmd, status) ==
    IF status.code = {0} THEN Ok ELSE Res("Command", name, cmd, status.code)

\* run_command: the child is spawned in cur_dir, is given the command, and is
\* waited for; it may write into pkg/ and, unless verbose, into stdout.log
BRunCommand ==
    /\ CommandDue
    /\ LET st == steps(recipe)[b_step]
           cmd == unwrap(st.step)[b_cmd]
       IN  \E status \in Statuses, writes \in BOOLEAN :
              /\ b_ops' = Append(b_ops, [op |-> "command", src |-> cmd,
                                         arg |-> st.cur_dir, status |-> status])
              /\ tree' = [tree EXCEPT
                            !["pkg"].holds = IF writes THEN @ \cup {cmd} ELSE @,
                            !["stdout.log"].holds = IF verbose THEN @ ELSE @ \cup {cmd}]
              /\ b_result' = command_result(recipe.name, cmd, status)
              /\ IF command_result(recipe.name, cmd, status) = Ok
                   THEN b_cmd' = b_cmd + 1 /\ b_pc' = b_pc
                   ELSE b_cmd' = b_cmd /\ b_pc' = "returned"
    /\ UNCHANGED <<outside_build, recipe, verbose, tree_prior, b_src, b_step, b_errors,
                   b_total, b_snapshot>>

\* try_clone, canonicalize or spawn fails: no child
BSpawnFails ==
    /\ CommandDue
    /\ \E kind \in {"Canonicalize", "Spawn"} \cup (IF verbose THEN {} ELSE {"LogFile"}) :
          b_result' = Res(kind, "", unwrap(steps(recipe)[b_step].step)[b_cmd], {})
    /\ b_pc' = "returned"
    /\ UNCHANGED <<outside_build, recipe, verbose, tree, tree_prior, b_src, b_step, b_cmd,
                   b_ops, b_errors, b_total, b_snapshot>>

\* the child was spawned, but its stdin or the wait fails
BWaitFails ==
    /\ CommandDue
    /\ LET st == steps(recipe)[b_step]
           cmd == unwrap(st.step)[b_cmd]
       IN  /\ b_ops' = Append(b_ops, [op |-> "command", src |-> cmd, arg |-> st.cur_dir,
                                      status |-> NotWaited])
           /\ \E kind \in {"Stdin", "WriteChild", "Wait"} :
                 b_result' = Res(kind, "", cmd, {})
    /\ b_pc' = "returned"
    /\ UNCHANGED <<outside_build, recipe, verbose, tree, tree_prior, b_src, b_step, b_cmd,
                   b_errors, b_total, b_snapshot>>

\* the step is None or its commands are done: the next step, or packaging
BStepDone ==
    /\ b_pc = "steps"
    /\ ~CommandDue
    /\ IF b_step < Len(steps(recipe))
         THEN b_step' = b_step + 1 /\ b_cmd' = 1 /\ b_pc' = b_pc
         ELSE b_pc' = "package" /\ UNCHANGED <<b_step, b_cmd>>
    /\ UNCHANGED <<outside_build, recipe, verbose, tree, tree_prior, b_src, b_ops, b_result,
                   b_errors, b_total, b_snapshot>>

\* faulty variant: build/ is archived
append_dir_all_build(t) == Entry("tar", t["build"].holds)
\* builder.append_dir_all(".", &pkgdir), builder.finish()
append_dir_all(t) == Entry("tar", t["pkg"].holds)

\* XzEncoder over the tar file
xz(tar_file) == Entry("xz", tar_file.holds)

\* faulty variant: the package file is created before the tar file is written
package_create_first(t) ==
    LET out(tr, res) == [tree |-> tr, res |-> res]
        t0 == [t EXCEPT !["tar.xz"] = Entry("file", {})]
        t1 == [t0 EXCEPT !["tar"] = Entry("file", {})]
        t2 == [t1 EXCEPT !["tar"] = append_dir_all(t)]
        t4 == [t2 EXCEPT !["tar.xz"] = xz(t2["tar"])]
        t5 == [t4 EXCEPT !["tar"] = Absent]
    IN  {out(t, ArchiveErr("CreateFile")), out(t0, ArchiveErr("OpenFile")),
         out(t1, ArchiveErr("Archive")), out(t2, ArchiveErr("Seek")),
         out([t2 EXCEPT !["tar.xz"] = Entry("xz-partial", {})], ArchiveErr("Compress")),
         out(t4, ArchiveErr("RemoveFile")), out(t5, Ok)}
\* Archiver::package: the tar file is created and truncated, pkg/ is written
\* into it, the package file is created and filled with the compressed tar,
\* the tar file is removed; a failing operation ends it
package(t) ==
    LET out(tr, res) == [tree |-> tr, res |-> res]
        t1 == [t EXCEPT !["tar"] = Entry("file", {})]
        t2 == [t1 EXCEPT !["tar"] = append_dir_all(t)]
        t3 == [t2 EXCEPT !["tar.xz"] = Entry("file", {})]
        t4 == [t3 EXCEPT !["tar.xz"] = xz(t2["tar"])]
        t5 == [t4 EXCEPT !["tar"] = Absent]
    IN  {out(t, ArchiveErr("OpenFile")), out(t1, ArchiveErr("Archive")),
         out(t2, ArchiveErr("Seek")), out(t2, ArchiveErr("CreateFile")),
         out([t3 EXCEPT !["tar.xz"] = Entry("xz-partial", {})], ArchiveErr("Compress")),
         out(t4, ArchiveErr("RemoveFile")), out(t5, Ok)}

\* archiver.package(config, pkg)
BPackage ==
    /\ b_pc = "package"
    /\ b_snapshot' = tree["pkg"].holds
    /\ b_ops' = Append(b_ops, [op |-> "package", src |-> NoCmd, arg |-> "pkg",
                               status |-> NotWaited])
    /\ \E o \in package(tree) :
          /\ tree' = o.tree
          /\ b_result' = o.res
    /\ b_pc' = "returned"
    /\ UNCHANGED <<outside_build, recipe, verbose, tree_prior, b_src, b_step, b_cmd,
                   b_errors, b_total>>

\* progress_handler after the build stage's iter_fn: add_error(f) on Err, and
\* total_bar.inc(1) on Ok as build is the last stage
BHandle ==
    /\ b_pc = "returned"
    /\ IF b_result = Ok
         THEN b_total' = b_total + 1 /\ b_errors' = b_errors
         ELSE b_errors' = Append(b_errors, b_result) /\ b_total' = b_total
    /\ b_pc' = "handled"
    /\ UNCHANGED <<outside_build, recipe, verbose, tree, tree_prior, b_src, b_step, b_cmd,
                   b_ops, b_result, b_snapshot>>

BuildNext ==
    \/ ExtractReset
    \/ ExtractRemoveDirFails
    \/ ExtractCreateDirFails
    \/ ExtractSource
    \/ ExtractDone
    \/ BOpenLogs
    \/ BLogDirFails
    \/ BLogFileFails
    \/ BPkgDir
    \/ BPkgRemoveFails
    \/ BPkgCreateFails
    \/ BRunCommand
    \/ BSpawnFails
    \/ BWaitFails
    \/ BStepDone
    \/ BPackage
    \/ BHandle

BuildSpec == BuildInit /\ [][BuildNext]_vars

\* ------------------------------------------------------------------ BuildFile::open, check
\* Option::unwrap_or
unwrap_or(opt, default) == IF opt = {} THEN default ELSE unwrap(opt)

\* faulty variant: a recipe without check is loaded whatever skip_check says
needs_check_never(pkg) == FALSE
\* !package.skip_check.unwrap_or(false) && package.check.is_none()
needs_check(pkg) == ~unwrap_or(pkg.skip_check, FALSE) /\ pkg.check = {}

\* a recipe file with every combination of skip_check and check, opened and,
\* if it loads, taken through the build stage
RecipeInit ==
    /\ EngineIdle
    /\ BuildRest
    /\ \E prep \in Phase("prepare"), bld \in Phase("build"), inst \in Phase("install"),
          chk \in Phase("check"), skip_check \in OptionOf(BOOLEAN) :
          /\ PhaseLen(prep) + PhaseLen(bld) + PhaseLen(inst) <= MaxRecipeCmds
          /\ recipe = [name |-> "n", source |-> <<<<"x", ".tar", ".gz">>>>,
                       skip_extract |-> FALSE, skip_check |-> skip_check,
                       prepare |-> prep, build |-> bld, check |-> chk, install |-> inst]
    /\ verbose \in BOOLEAN
    /\ tree \in {t \in PriorTrees : \A p, q \in Paths : t[p].exists = t[q].exists}
    /\ tree_prior = tree
    /\ b_pc = "open"
    /\ b_src = 0
    /\ b_step = 0
    /\ b_cmd = 0
    /\ b_ops = <<>>
    /\ b_result = NoResult
    /\ b_errors = <<>>
    /\ b_total = 0
    /\ b_snapshot = {}

\* BuildFile::open returns the BuildFile, which reaches the build stage
RecipeOpen ==
    /\ b_pc = "open"
    /\ ~needs_check(recipe)
    /\ b_pc' = "extract"
    /\ UNCHANGED <<outside_build, recipe, verbose, tree, tree_prior, b_src, b_step, b_cmd,
                   b_ops, b_result, b_errors, b_total, b_snapshot>>

\* Err(PackageError::NeedsCheck): there is no BuildFile to build
RecipeNeedsCheck ==
    /\ b_pc = "open"
    /\ needs_check(recipe)
    /\ b_result' = Res("Package", "NeedsCheck", NoCmd, {})
    /\ b_pc' = "rejected"
    /\ UNCHANGED <<outside_build, recipe, verbose, tree, tree_prior, b_src, b_step, b_cmd,
                   b_ops, b_errors, b_total, b_snapshot>>

RecipeNext ==
    \/ RecipeOpen
    \/ RecipeNeedsCheck
    \/ BuildNext

RecipeSpec == RecipeInit /\ [][RecipeNext]_vars

\* ------------------------------------------------------------------ two runs in a row
\* what the source's URL or path holds
Pristine == <<"p", "p">>
Kinds ==
    [scheme : {"http"}, range : BOOLEAN, resize : {"same", "shorter", "longer"},
     fragment : {"none"}]
    \cup [scheme : {"git"}, range : {FALSE}, resize : {"same"}, fragment : {"none", "tag"}]
    \cup [scheme : {"file", "dir"}, range : {FALSE}, resize : {"same"}, fragment : {"none"}]
NoSource == [exists |-> FALSE, content |-> <<>>, repo |-> FALSE, head |-> "none"]
Source(content, repo, at) ==
    [exists |-> TRUE, content |-> content, repo |-> repo, head |-> at]

\* a prepare command edits the source: one more byte of it is changed, and it
\* may shrink or grow
RECURSIVE mark(_)
mark(c) ==
    IF c = <<>> THEN c
    ELSE IF Head(c) = "p" THEN <<"m">> \o Tail(c)
    ELSE <<Head(c)>> \o mark(Tail(c))
modify(c, resize) ==
    IF resize = "same" THEN mark(c)
    ELSE IF resize = "shorter" THEN mark(SubSeq(c, 1, Len(c) - 1))
    ELSE Append(mark(c), "m")

RepeatInit ==
    /\ EngineIdle
    /\ RepeatRest
    /\ rp_kind \in Kinds
    /\ rp_modifies \in BOOLEAN
    /\ rp_run = 1
    /\ rp_pc = "download"
    /\ rp_src = NoSource
    /\ rp_build = <<>>
    /\ rp_errors = [n \in 1..2 |-> <<>>]
    /\ rp_artifact = [n \in 1..2 |-> <<>>]

\* download_http without clobber on a server that answers every request: a
\* file as long as Content-Length is kept, a shorter one gets the rest
\* appended, anything else is downloaded whole
RpDownloadHttp ==
    /\ rp_pc = "download"
    /\ rp_kind.scheme = "http"
    /\ LET length == IF rp_kind.range THEN {Len(Pristine)} ELSE {}
           filelen == Len(rp_src.content)
           resume == MayResume(rp_src, FALSE) /\ length # {}
       IN  rp_src' = IF resume /\ unwrap(length) = filelen THEN rp_src
                     ELSE IF resume /\ filelen < unwrap(length)
                       THEN Source(rp_src.content \o SubSeq(Pristine, filelen + 1, Len(Pristine)),
                                   FALSE, "none")
                     ELSE Source(Pristine, FALSE, "none")
    /\ rp_pc' = "extract"
    /\ UNCHANGED <<outside_repeat, rp_kind, rp_modifies, rp_run, rp_build, rp_errors,
                   rp_artifact>>

\* download_git without clobber: a repository on a branch is fetched and, as
\* there is no fragment, its working tree stays as it is; anything else is
\* removed and cloned; tag=T leaves HEAD detached
RpDownloadGit ==
    /\ rp_pc = "download"
    /\ rp_kind.scheme = "git"
    /\ rp_src' = IF rp_src.exists /\ ReusesRepo(rp_src, FALSE)
                   THEN rp_src
                   ELSE Source(Pristine, TRUE,
                               IF rp_kind.fragment = "none" THEN "branch" ELSE "detached")
    /\ rp_pc' = "extract"
    /\ UNCHANGED <<outside_repeat, rp_kind, rp_modifies, rp_run, rp_build, rp_errors,
                   rp_artifact>>

\* copy_dir on a file: fs::copy writes over what is there
RpDownloadFile ==
    /\ rp_pc = "download"
    /\ rp_kind.scheme = "file"
    /\ rp_src' = Source(Pristine, FALSE, "none")
    /\ rp_pc' = "extract"
    /\ UNCHANGED <<outside_repeat, rp_kind, rp_modifies, rp_run, rp_build, rp_errors,
                   rp_artifact>>

\* copy_dir on a directory that is not in src/ yet
RpDownloadDir ==
    /\ rp_pc = "download"
    /\ rp_kind.scheme = "dir"
    /\ ~rp_src.exists
    /\ rp_src' = Source(Pristine, FALSE, "none")
    /\ rp_pc' = "extract"
    /\ UNCHANGED <<outside_repeat, rp_kind, rp_modifies, rp_run, rp_build, rp_errors,
                   rp_artifact>>

\* copy_dir on a directory that is in src/ already: fs::create_dir fails, the
\* error goes to add_error and the iter_fn returns Ok
RpDownloadDirFails ==
    /\ rp_pc = "download"
    /\ rp_kind.scheme = "dir"
    /\ rp_src.exists
    /\ rp_errors' = [rp_errors EXCEPT ![rp_run] = Append(@, "Util(CreateDir)")]
    /\ rp_pc' = "extract"
    /\ UNCHANGED <<outside_repeat, rp_kind, rp_modifies, rp_run, rp_src, rp_build,
                   rp_artifact>>

\* Archiver::extract: build/ is made anew from the source in src/
RpExtract ==
    /\ rp_pc = "extract"
    /\ rp_build' = rp_src.content
    /\ rp_pc' = "prepare"
    /\ UNCHANGED <<outside_repeat, rp_kind, rp_modifies, rp_run, rp_src, rp_errors,
                   rp_artifact>>

\* the prepare commands run in src/
RpPrepare ==
    /\ rp_pc = "prepare"
    /\ rp_src' = IF rp_modifies
                   THEN [rp_src EXCEPT !.content = modify(@, rp_kind.resize)]
                   ELSE rp_src
    /\ rp_pc' = "package"
    /\ UNCHANGED <<outside_repeat, rp_kind, rp_modifies, rp_run, rp_build, rp_errors,
                   rp_artifact>>

\* the build and install commands and Archiver::package: the package is a
\* function of what the commands found in build/ and src/
RpPackage ==
    /\ rp_pc = "package"
    /\ rp_artifact' = [rp_artifact EXCEPT ![rp_run] = <<rp_build, rp_src.content>>]
    /\ IF rp_run = 1
         THEN rp_run' = 2 /\ rp_pc' = "download"
         ELSE rp_run' = rp_run /\ rp_pc' = "done"
    /\ UNCHANGED <<outside_repeat, rp_kind, rp_modifies, rp_src, rp_build, rp_errors>>

RepeatNext ==
    \/ RpDownloadHttp
    \/ RpDownloadGit
    \/ RpDownloadFile
    \/ RpDownloadDir
    \/ RpDownloadDirFails
    \/ RpExtract
    \/ RpPrepare
    \/ RpPackage

RepeatSpec == RepeatInit /\ [][RepeatNext]_vars

\* ------------------------------------------------------------------ BuildFile::open
\* texts are strings of characters; "n" and "v" stand for the words name and
\* version
Letters == {"$", "a", "b", "-"}
Texts(n) == UNION {[1..l -> Letters] : l \in 0..n}
Keys == {<<"a">>, <<"b">>}
Implicit == <<"$", "n", "$", "v">>

\* UnicodeXID::is_xid_continue
is_xid_continue(ch) == ch \in {"a", "b", "n", "v"}

\* the sequences over a set that name each element once
Orders(S) == {o \in [1..Cardinality(S) -> S] : \A i, j \in 1..Cardinality(S) : o[i] = o[j] => i = j}

\* subst_vars: input.split(key), and before every piece but the first comes
\* the key if the piece starts with an identifier-continue character and the
\* value if not
RECURSIVE subst_vars(_, _, _)
subst_vars(input, key, value) ==
    IF input = <<>> THEN <<>>
    ELSE IF starts_with(input, key)
      THEN LET val == SubSeq(input, Len(key) + 1, Len(input))
           IN  (IF val # <<>> /\ is_xid_continue(Head(val)) THEN key ELSE value)
               \o subst_vars(val, key, value)
    ELSE <<Head(input)>> \o subst_vars(Tail(input), key, value)

SubstInit ==
    /\ EngineIdle
    /\ SubstRest
    /\ \E ks \in SUBSET Keys :
          /\ env \in [ks -> Texts(MaxValue)]
          /\ order \in Orders(ks)
    /\ \E t \in Texts(MaxText) :
          package_raw = [name |-> t, version |-> t, description |-> t \o Implicit,
                         license |-> <<t>>, source |-> <<t \o Implicit>>]
    /\ package_in = package_raw
    /\ subst_pc = "env"
    /\ subst_i = 1

\* the body of `for (key, val) in env.iter()`: the key with "$" before it is
\* substituted in the name, the version, the description, every license and
\* every source
subst_fields(pkg, k, val) ==
    LET key == <<"$">> \o k
    IN  [name |-> subst_vars(pkg.name, key, val),
         version |-> subst_vars(pkg.version, key, val),
         description |-> subst_vars(pkg.description, key, val),
         license |-> [i \in DOMAIN pkg.license |-> subst_vars(pkg.license[i], key, val)],
         source |-> [i \in DOMAIN pkg.source |-> subst_vars(pkg.source[i], key, val)]]

\* one round of `for (key, val) in env.iter()`
SubstKey ==
    /\ subst_pc = "env"
    /\ subst_i <= Len(order)
    /\ package_raw' = subst_fields(package_raw, order[subst_i], env[order[subst_i]])
    /\ subst_i' = subst_i + 1
    /\ UNCHANGED <<outside_subst, env, order, package_in, subst_pc>>

\* after the loop: $name and $version are substituted in the description and
\* the sources
subst_implicit(pkg) ==
    LET both(str) == subst_vars(subst_vars(str, <<"$", "n">>, pkg.name),
                                <<"$", "v">>, pkg.version)
    IN  [pkg EXCEPT !.description = both(@),
                    !.source = [i \in DOMAIN @ |-> both(@[i])]]

\* after the loop: name and version are put into env, and $name and $version
\* are substituted
SubstImplicit ==
    /\ subst_pc = "env"
    /\ subst_i > Len(order)
    /\ package_raw' = subst_implicit(package_raw)
    /\ env' = [k \in DOMAIN env \cup {<<"n">>, <<"v">>} |->
                  IF k = <<"n">> THEN package_raw.name
                  ELSE IF k = <<"v">> THEN package_raw.version
                  ELSE env[k]]
    /\ subst_pc' = "done"
    /\ UNCHANGED <<outside_subst, order, package_in, subst_i>>

SubstNext ==
    \/ SubstKey
    \/ SubstImplicit

SubstSpec == SubstInit /\ [][SubstNext]_vars

\* ------------------------------------------------------------------ util::copy_dir
\* a path is the sequence of its names below the destination; an entry's path
\* is the one entry.path().strip_prefix(parent) gives, so it starts with the
\* source's own name
Node(kind, content) == [kind |-> kind, content |-> content]
Nothing == Node("none", "")
Dir == Node("dir", "")
Walks ==
    {<<[path |-> <<"f">>, is_dir |-> FALSE]>>,
     <<[path |-> <<"d">>, is_dir |-> TRUE]>>,
     <<[path |-> <<"d">>, is_dir |-> TRUE], [path |-> <<"d", "a">>, is_dir |-> FALSE]>>,
     <<[path |-> <<"d">>, is_dir |-> TRUE], [path |-> <<"d", "s">>, is_dir |-> TRUE],
       [path |-> <<"d", "s", "a">>, is_dir |-> FALSE]>>}
DestPaths == {<<>>, <<"f">>, <<"o">>, <<"d">>, <<"d", "a">>, <<"d", "s">>, <<"d", "s", "a">>}
parent(path) == SubSeq(path, 1, Len(path) - 1)
\* the destination as it may be before the call: missing, or a directory with
\* files and directories in it, some of them at the paths the source has
Dests ==
    {t \in [DestPaths -> {Nothing, Dir, Node("file", "old"), Node("file", "new")}] :
        /\ t[<<>>] \in {Nothing, Dir}
        /\ t[<<"o">>] \in {Nothing, Node("file", "old")}
        /\ \A p \in DestPaths \ {<<>>} : t[p] # Nothing => t[parent(p)] = Dir}

\* fs::create_dir: the path must be free and its parent a directory
create_dir(t, path) ==
    IF t[path] = Nothing /\ t[parent(path)] = Dir
      THEN [tree |-> [t EXCEPT ![path] = Dir], res |-> "Ok"]
      ELSE [tree |-> t, res |-> "CreateDir"]

\* fs::copy: the file is created, or truncated and written, unless a directory
\* is at the path or the parent is no directory
copy(t, path) ==
    IF t[path] # Dir /\ t[parent(path)] = Dir
      THEN [tree |-> [t EXCEPT ![path] = Node("file", "new")], res |-> "Ok"]
      ELSE [tree |-> t, res |-> "Copy"]

CopyInit ==
    /\ EngineIdle
    /\ CopyRest
    /\ cp_walk \in Walks
    /\ cp_dest \in Dests
    /\ cp_prior = cp_dest
    /\ cp_first = cp_dest
    /\ cp_run = 1
    /\ cp_i = 1
    /\ cp_pc = "walk"
    /\ cp_result = <<"none", "none">>

\* one round of `for entry in WalkDir::new(source)`: create_dir for a
\* directory, fs::copy for anything else, at dest.join(subpath); an Err returns
CopyEntry ==
    /\ cp_pc = "walk"
    /\ cp_i <= Len(cp_walk)
    /\ LET entry == cp_walk[cp_i]
           o == IF entry.is_dir THEN create_dir(cp_dest, entry.path)
                ELSE copy(cp_dest, entry.path)
       IN  /\ cp_dest' = o.tree
           /\ IF o.res = "Ok"
                THEN cp_i' = cp_i + 1 /\ UNCHANGED <<cp_pc, cp_result>>
                ELSE /\ cp_result' = [cp_result EXCEPT ![cp_run] = o.res]
                     /\ cp_pc' = "returned"
                     /\ cp_i' = cp_i
    /\ UNCHANGED <<outside_copy, cp_walk, cp_prior, cp_first, cp_run>>

\* the walk is over: Ok(())
CopyReturn ==
    /\ cp_pc = "walk"
    /\ cp_i > Len(cp_walk)
    /\ cp_result' = [cp_result EXCEPT ![cp_run] = "Ok"]
    /\ cp_pc' = "returned"
    /\ UNCHANGED <<outside_copy, cp_walk, cp_dest, cp_prior, cp_first, cp_run, cp_i>>

\* copy_dir is called again with the same source and destination
CopyAgain ==
    /\ cp_pc = "returned"
    /\ cp_run = 1
    /\ cp_first' = cp_dest
    /\ cp_run' = 2
    /\ cp_i' = 1
    /\ cp_pc' = "walk"
    /\ UNCHANGED <<outside_copy, cp_walk, cp_dest, cp_prior, cp_result>>

CopyNext ==
    \/ CopyEntry
    \/ CopyReturn
    \/ CopyAgain

CopySpec == CopyInit /\ [][CopyNext]_vars

\* ------------------------------------------------------------------ run_step, the lane message
\* usize is taken to be 30 bits wide: a wrapped difference is larger than
\* every line, as it is with 64 bits
UsizeModulus == 2^30

\* str::lines().next(): nothing for the empty string, else the characters
\* before the first line feed
lines_next(str) ==
    IF str = <<>> THEN {}
    ELSE LET ends == {i \in 1..Len(str) : str[i] = "\n"}
             first == IF ends = {} THEN Len(str) + 1
                      ELSE CHOOSE i \in ends : \A j \in ends : i <= j
         IN  {SubSeq(str, 1, first - 1)}

\* usize - usize: the difference; below zero a build with overflow checks
\* panics (no value) and one without wraps
sub(a, b, checks) ==
    IF a >= b THEN {a - b}
    ELSE IF checks THEN {}
    ELSE {(a - b) % UsizeModulus}

\* chars().take(n).collect::<String>()
take(str, n) == SubSeq(str, 1, Min(n, Len(str)))

MessageInit ==
    /\ EngineIdle
    /\ MessageRest
    /\ ms_cmd \in UNION {[1..l -> {"c", "\n"}] : l \in 0..MaxCmdLen}
    /\ ms_name \in 0..MaxNameChars
    /\ ms_width \in OptionOf(0..MaxColumns)
    /\ ms_checks \in BOOLEAN
    /\ ms_pc = "lines"
    /\ ms_line = <<>>
    /\ ms_take = 0
    /\ ms_msg = <<>>

\* let msg = cmd.lines().next().unwrap()
MessageLine ==
    /\ ms_pc = "lines"
    /\ lines_next(ms_cmd) # {}
    /\ ms_line' = unwrap(lines_next(ms_cmd))
    /\ ms_pc' = "take"
    /\ UNCHANGED <<outside_message, ms_cmd, ms_name, ms_width, ms_checks, ms_take, ms_msg>>

\* unwrap() on None: the worker thread panics
MessageLinePanics ==
    /\ ms_pc = "lines"
    /\ lines_next(ms_cmd) = {}
    /\ ms_pc' = "panicked"
    /\ UNCHANGED <<outside_message, ms_cmd, ms_name, ms_width, ms_checks, ms_line, ms_take,
                   ms_msg>>

\* dimensions().unwrap_or((80, 0)).0 - name.chars().count() - 6, evaluated
\* from the left
columns_left(width, name, checks) ==
    LET first == sub(unwrap_or(width, 80), name, checks)
    IN  IF first = {} THEN {} ELSE sub(unwrap(first), 6, checks)

\* msg.chars().take(..).collect(); progbar.set_message(&msg)
MessageSet ==
    /\ ms_pc = "take"
    /\ columns_left(ms_width, ms_name, ms_checks) # {}
    /\ ms_take' = unwrap(columns_left(ms_width, ms_name, ms_checks))
    /\ ms_msg' = take(ms_line, ms_take')
    /\ ms_pc' = "set"
    /\ UNCHANGED <<outside_message, ms_cmd, ms_name, ms_width, ms_checks, ms_line>>

\* a subtraction overflows in a build that checks: the worker thread panics
MessageOverflowPanics ==
    /\ ms_pc = "take"
    /\ columns_left(ms_width, ms_name, ms_checks) = {}
    /\ ms_pc' = "panicked"
    /\ UNCHANGED <<outside_message, ms_cmd, ms_name, ms_width, ms_checks, ms_line, ms_take,
                   ms_msg>>

MessageNext ==
    \/ MessageLine
    \/ MessageLinePanics
    \/ MessageSet
    \/ MessageOverflowPanics

MessageSpec == MessageInit /\ [][MessageNext]_vars

\* ------------------------------------------------------------------ specification
\* Progress::new and the start of Progress::run, with the limits in the state
Limits == [cpu_count : 1..MaxCpu, parallel_download : OptU32(MaxCpu),
           parallel_build : OptU32(MaxCpu)]

CountInit ==
    /\ EngineInit
    /\ EngineRest
    /\ limits \in Limits
    /\ bar_count = BarCount(batch, limits.cpu_count, limits.parallel_download,
                            limits.parallel_build)

CountNext ==
    \/ RunCreateDirFails
    \/ RunNoStages
    \/ RunSpawn
    \/ \E w \in Workers : WInit(w)

CountSpec == CountInit /\ [][CountNext]_vars

Next ==
    \/ RunCreateDirFails
    \/ RunNoStages
    \/ RunSpawn
    \/ Tick
    \/ TickerExit
    \/ JoinOk
    \/ JoinErr
    \/ RunReturn
    \/ MainExit
    \/ \E w \in Workers : WInit(w)
    \/ \E w \in Workers : Pop(w)
    \/ \E w \in Workers : Advance(w)
    \/ \E w \in Workers : CreateDirOk(w)
    \/ \E w \in Workers : CreateDirFails(w)
    \/ \E w \in Workers : DownloadSource(w)
    \/ \E w \in Workers : IterOk(w)
    \/ \E w \in Workers : IterErr(w)
    \/ \E w \in Workers : FinishLane(w)
    \/ \E w \in Workers : Decrement(w)

\* one step of worker w, whatever it is
WorkerStep(w) ==
    \/ WInit(w)
    \/ Pop(w)
    \/ Advance(w)
    \/ CreateDirOk(w)
    \/ CreateDirFails(w)
    \/ DownloadSource(w)
    \/ IterOk(w)
    \/ IterErr(w)
    \/ FinishLane(w)
    \/ Decrement(w)

Spec == Init /\ [][Next]_vars

\* every thread is scheduled; the environment answers every call
FairSpec ==
    /\ Spec
    /\ WF_vars(RunSpawn \/ RunNoStages \/ RunCreateDirFails)
    /\ WF_vars(JoinOk)
    /\ WF_vars(TickerExit)
    /\ WF_vars(RunReturn)
    /\ WF_vars(MainExit)
    /\ \A w \in 1..MaxWorkers : WF_vars(w \in Workers /\ WorkerStep(w))

\* ------------------------------------------------------------------ claims
\* Progress::run went through the engine (no early return) and has returned
EngineReturned == main_pc \in {"returned", "exited"} /\ ticker_pc = "exited"

\* an upstream worker can still enqueue into queue K: an earlier stage's queue
\* holds an item, or another worker runs an earlier stage's iter_fn
UpstreamLive(K, w) ==
    \E j \in 0..(K - 1) :
        \/ queues[j] # <<>>
        \/ \E v \in Workers \ {w} : current_queue[v] = j /\ pc[v] = "run"

\* C1: no worker advances past stage K's queue while an earlier stage's queue is
\* non-empty or another worker is still running an earlier stage's iter_fn.
C1_NoAdvancePastLiveQueue ==
    [][\A w \in Workers :
          current_queue'[w] = current_queue[w] + 1 => ~UpstreamLive(current_queue[w], w)]_vars

\* C2: when Progress::run returns, the totals bar's position plus the number of
\* errors in the ErrorBag equals the batch size (stated for the runs in which
\* only workers recorded errors).
C2_PositionPlusErrorsIsBatch ==
    (EngineReturned /\ WorkerErrors(errors) = 1..Len(errors))
        => total_pos + Len(errors) = batch

\* C3: once an error was reported for recipe R while stage K ran on it, R is not
\* pushed to a later stage's queue and no later stage runs on R.
C3_ErrorStopsRecipe ==
    \A r \in Recipes : \A i \in ErrorsOf(errors, r) : \A k \in Stages :
        k > errors[i].stage => pushed[r][k] = 0 /\ started[r][k] = 0

\* C4: with fail_fast set, once a worker has appended an error to the ErrorBag no
\* worker pops another item.
C4_FailFastStopsPops ==
    [][(fail_fast /\ WorkerErrors(errors) # {}) =>
          \A w \in Workers : buildfile'[w] # 0 => buildfile'[w] = buildfile[w]]_vars

\* C5: stage k+1's iter_fn starts on R only after stage k's iter_fn returned Ok on
\* R; each stage's iter_fn runs on R at most once and R enters each stage queue at
\* most once.
C5_StageOrder ==
    \A r \in Recipes : \A k \in Stages :
        /\ started[r][k] <= 1
        /\ pushed[r][k] <= 1
        /\ (k > 0 /\ started[r][k] > 0) => outcome[r][k - 1] = "Ok"

C5_Witness ==
    /\ nstages = 2
    /\ \E r \in Recipes : started[r][1] = 1 /\ outcome[r][1] = "Ok"
    /\ \E r \in Recipes : outcome[r][0] = "Err"

\* C6 as claimed: without fail-fast, when Progress::run returns every stage queue
\* is empty and every recipe pushed onto a stage queue had that stage's iter_fn
\* run on it.
C6_DrainedAndRun ==
    (EngineReturned /\ ~fail_fast) =>
        /\ \A k \in Stages : queues[k] = <<>>
        /\ \A r \in Recipes : \A k \in Stages : started[r][k] = pushed[r][k]

\* C6 as amended: without fail-fast, when Progress::run returns every stage queue
\* is empty and every recipe pushed onto a stage queue was popped and either had
\* that stage's iter_fn run on it or had the creation of its base directory fail.
C6_DrainedRunOrCreateDirFailed ==
    (EngineReturned /\ ~fail_fast) =>
        /\ \A k \in Stages : queues[k] = <<>>
        /\ \A r \in Recipes : \A k \in Stages :
               started[r][k] + mkdir_failed[r][k] = pushed[r][k]

C6_Witness ==
    /\ EngineReturned
    /\ ~fail_fast
    /\ overtaken
    /\ \E r \in Recipes : pushed[r][nstages - 1] = 1 /\ started[r][nstages - 1] = 1

\* C7: for every batch size, stage count and worker count, every worker thread and
\* the ticker thread terminate and Progress::run returns.
C7_Terminates ==
    <>(/\ main_pc = "exited"
       /\ ticker_pc \in {"unspawned", "exited"}
       /\ \A w \in Workers : pc[w] \in {"unspawned", "done"})

C7_Witness ==
    /\ main_pc = "exited"
    /\ ticker_pc = "exited"
    /\ batch = MaxBatch
    /\ Cardinality(Workers) > 1
    /\ \A w \in Workers : pc[w] = "done"
    /\ total_pos > 0

\* what happened to recipe B itself: no stage returned Err on it and the creation
\* of its base directory did not fail
OwnSuccess(B) ==
    \A k \in Stages : outcome[B][k] # "Err" /\ mkdir_failed[B][k] = 0

\* C8: without fail-fast, when Progress::run returns recipe B was counted on the
\* totals bar exactly if nothing failed for B itself, and the errors recorded for B
\* are those reported while working on B, whatever happened to the other recipes.
C8_Independent ==
    (EngineReturned /\ ~fail_fast) =>
        \A B \in Recipes :
            /\ counted[B] = 1 <=> OwnSuccess(B)
            /\ Cardinality(ErrorsOf(errors, B)) = reports[B]

C8_Witness ==
    /\ EngineReturned
    /\ ~fail_fast
    /\ nstages = 2
    /\ \E A \in Recipes, B \in Recipes :
           /\ A < B
           /\ outcome[A][0] = "Err"
           /\ counted[B] = 1

\* C9: the totals bar position is incremented exactly once for each recipe whose
\* final-stage iter_fn returned Ok and never otherwise: it always equals the
\* number of those recipes and never exceeds the batch size.
C9_TotalsCountFinalSuccesses ==
    /\ \A r \in Recipes :
           counted[r] = (IF nstages > 0 /\ outcome[r][nstages - 1] = "Ok" THEN 1 ELSE 0)
    /\ total_pos = Cardinality({r \in Recipes : counted[r] > 0})
    /\ total_pos <= batch

C9_Witness ==
    /\ nstages = 2
    /\ total_pos = 1
    /\ \E r \in Recipes : outcome[r][1] = "Err"
    /\ \E r \in Recipes : outcome[r][0] = "Ok" /\ counted[r] = 0 /\ started[r][1] = 1

\* C10: Progress::run returns Ok exactly when no error was recorded; otherwise
\* its AggregateError holds one entry per add_error call of every worker, and the
\* process exits with code 1 (0 after Ok).
C10_ResultIsErrorBag ==
    /\ EngineReturned =>
           /\ result.kind = "Ok" <=>
                  ((\A r \in Recipes : reports[r] = 0) /\ WorkerErrors(errors) = 1..Len(errors))
           /\ \A r \in Recipes : Cardinality(ErrorsOf(result.errs, r)) = reports[r]
    /\ main_pc = "exited" =>
           exit_code = (IF result.kind = "Ok" THEN 0 ELSE 1)

C10_Witness ==
    /\ main_pc = "exited"
    /\ ticker_pc = "exited"
    /\ exit_code = 1
    /\ \E a \in Recipes, b \in Recipes : a # b /\ reports[a] > 0 /\ reports[b] > 0

\* C11: the totals bar is finalized exactly once, by the worker that takes the
\* shared counter from 1 to 0, and only when every worker has no item in hand
\* and shows Done on its lane; once finalized it stays so, and no step changes
\* its position, length or message afterwards.
C11_TotalsFinalizedOnceAtEnd ==
    [][ /\ (total_done' # total_done) =>
               /\ ~total_done
               /\ counter = 1 /\ counter' = 0
               /\ \A w \in Workers :
                      /\ lane'[w].msg = "Done"
                      /\ buildfile'[w] = 0
                      /\ pc'[w] \in {"dec", "done"}
        /\ main_pc # "start" => counter' <= counter
        /\ total_done =>
               /\ total_pos' = total_pos
               /\ total_len' = total_len
               /\ total_msg' = total_msg
               /\ \A w \in Workers : pc[w] \in {"dec", "done"}
      ]_vars

C11_Witness ==
    /\ total_done
    /\ bar_count = 3
    /\ total_pos > 0
    /\ WorkerErrors(errors) # {}
    /\ \A w \in Workers : pc[w] = "done" /\ lane[w].msg = "Done"

\* the places where recipe r is: slots of stage queues, workers holding it
QueueSlots(r) == {s \in Stages \X (1..batch) :
                     s[2] <= Len(queues[s[1]]) /\ queues[s[1]][s[2]] = r}
Holders(r) == {w \in Workers : buildfile[w] = r}
Finished(r) ==
    \/ counted[r] > 0
    \/ \E k \in Stages : outcome[r][k] = "Err" \/ mkdir_failed[r][k] > 0

\* C12: once the queues are filled, every recipe is in exactly one place: one
\* slot of one stage queue, or the hands of one worker, or finished (counted,
\* or failed); so no two workers hold the same recipe at once.
C12_ExactlyOnePlace ==
    ticker_pc # "unspawned" =>
        /\ \A r \in Recipes :
               /\ \A k \in Stages : Len(queues[k]) <= batch
               /\ Cardinality(QueueSlots(r)) + Cardinality(Holders(r))
                      + (IF Finished(r) THEN 1 ELSE 0) = 1
        /\ \A v \in Workers, w \in Workers :
               (v # w /\ buildfile[v] # 0) => buildfile[v] # buildfile[w]

C12_Witness ==
    \E v \in Workers, w \in Workers :
        /\ pc[v] = "run" /\ pc[w] = "run"
        /\ buildfile[v] # buildfile[w]
        /\ current_queue[v] < current_queue[w]
        /\ \E r \in Recipes : QueueSlots(r) = {} /\ Holders(r) = {v}

\* the lane of worker w as the stages see it
LaneInv(w) ==
    /\ current_queue[w] \in 0..nstages
    /\ \A k \in Stages :
           inits[w][k] = (IF k < current_queue[w] \/ (k = current_queue[w] /\ pc[w] # "init")
                            THEN 1 ELSE 0)
    /\ pc[w] \in {"loop", "popped", "run"} => current_queue[w] < nstages
    /\ pc[w] \in {"finish", "dec", "done"} => current_queue[w] = nstages
    /\ lane[w].msg = "Done" <=> pc[w] \in {"dec", "done"}
    /\ pc[w] \in {"loop", "popped", "run"} => lane[w].style = StageKind(current_queue[w])

\* C15: each lane goes Idle, StageInit(0), StageRunning(0), StageInit(1), ...,
\* Finished: a worker calls init_fns[K] exactly once, before it pops any item
\* of stage K; its stage index only ever grows by one; it ends showing Done and
\* the lane then no longer changes.
C15_LaneLifecycle ==
    /\ [](ticker_pc # "unspawned" => \A w \in Workers : LaneInv(w))
    /\ [][ \A w \in Workers :
               /\ current_queue'[w] \in {current_queue[w], current_queue[w] + 1}
               /\ inits'[w] # inits[w] => (pc[w] = "init" /\ pc'[w] = "loop")
               /\ lane[w].msg = "Done" => lane'[w] = lane[w]
          ]_vars

C15_Witness ==
    \E w \in Workers :
        /\ pc[w] = "done"
        /\ nstages = 2
        /\ inits[w][0] = 1 /\ inits[w][1] = 1
        /\ lane[w] = [style |-> "build", msg |-> "Done"]
        /\ \E r \in Recipes : counted[r] = 1

\* the thread and lane sets Progress::run ends up with
Spawned == {w \in DOMAIN pc : pc[w] # "unspawned"}

\* C14 as stated: W is min(recipes + 1, cpu_count) capped by parallel_download
\* and parallel_build themselves, then raised to 2.
C14_CappedByTheOptions ==
    bar_count = Max(Min(Min(Min(batch + 1, limits.cpu_count),
                            IF limits.parallel_download = {} THEN batch + 1
                            ELSE unwrap(limits.parallel_download)),
                        IF limits.parallel_build = {} THEN batch + 1
                        ELSE unwrap(limits.parallel_build)), 2)

\* C14: W is min(recipes + 1, cpu_count), capped by parallel_download + 1 and
\* by parallel_build + 1 when they are set, then raised to at least 2; W - 1
\* lanes are created and, once run has spawned, exactly W - 1 workers run.
C14_CappedByTheOptionsPlusOne ==
    /\ bar_count = Max(Min(Min(Min(batch + 1, limits.cpu_count),
                               IF limits.parallel_download = {} THEN batch + 1
                               ELSE unwrap(limits.parallel_download) + 1),
                           IF limits.parallel_build = {} THEN batch + 1
                           ELSE unwrap(limits.parallel_build) + 1), 2)
    /\ DOMAIN lane = 1..(bar_count - 1)
    /\ Spawned = (IF ticker_pc = "unspawned" THEN {} ELSE 1..(bar_count - 1))
    /\ ticker_pc # "unspawned" => counter = bar_count - 1

C14_Witness ==
    /\ batch = 2
    /\ limits = [cpu_count |-> 3, parallel_download |-> {2}, parallel_build |-> {}]
    /\ bar_count = 3
    /\ Spawned = {1, 2}
    /\ \A w \in Spawned : lane[w].style = "download"

IsPrefix(p, q) == Len(p) <= Len(q) /\ SubSeq(q, 1, Len(p)) = p

\* C13: the recipes gather_buildfiles returns (the identifiers sorted and
\* de-duplicated) have pairwise distinct base directories, none inside another.
C13_DisjointBaseDirs ==
    gather_pc = "done" =>
        \A i \in 1..Len(gathered), j \in 1..Len(gathered) :
            i # j => ~IsPrefix(base_dir(gathered[i]), base_dir(gathered[j]))

ErrorsFor(i) == {e \in 1..Len(fetch_errors) : fetch_errors[e].src = i}
\* the download results of source i that are failures
MustFail(i) == \A o \in download(sources[i], parent_dir) : o.res = "Err"

\* C16 as stated: when the download stage is over, every source was attempted
\* exactly once, in list order.
C16_EverySourceAttempted ==
    fetch_pc = "returned" => attempts = [i \in 1..Len(sources) |-> i]

\* C16: once the download directory exists or was created, every source is
\* attempted exactly once in list order whatever happened to the earlier ones,
\* and a source adds one error if its download failed and none otherwise; if
\* the directory cannot be created no source is attempted.
C16_EverySourceAttemptedAfterMkdir ==
    /\ attempts = [i \in 1..fetch_i |-> i]
    /\ fetch_pc = "returned" =>
           IF fetch_result = "Ok" THEN fetch_i = Len(sources)
           ELSE fetch_i = 0 /\ fetch_errors = <<>>
    /\ \A i \in 1..Len(sources) :
           /\ Cardinality(ErrorsFor(i)) <= 1
           /\ ErrorsFor(i) # {} => i <= fetch_i
           /\ (i <= fetch_i /\ MustFail(i)) => ErrorsFor(i) # {}
    /\ \A e \in 1..Len(fetch_errors), f \in 1..Len(fetch_errors) :
           e < f => fetch_errors[e].src < fetch_errors[f].src

C16_Witness ==
    /\ fetch_pc = "returned"
    /\ fetch_result = "Ok"
    /\ Len(sources) = 2
    /\ attempts = <<1, 2>>
    /\ ErrorsFor(1) # {}
    /\ ErrorsFor(2) = {}
    /\ copied # {}

\* the non-URL sources whose canonical path exists and is outside the recipe root
Outside(i) ==
    /\ sources[i].scheme = ""
    /\ canonicalize(join(join(pkgbuild_dir, parent_dir), sources[i].path)) # <<>>
    /\ ~starts_with(canonicalize(join(join(pkgbuild_dir, parent_dir), sources[i].path)),
                    canonicalize(pkgbuild_dir))

\* C17: a non-URL source whose canonicalized path is outside the canonicalized
\* recipe root makes the download stage fail for the recipe, with
\* InvalidSource carrying that path, and is not copied.
C17_OutsideSourceFailsStage ==
    \A i \in 1..Len(sources) :
        (Outside(i) /\ fetch_pc = "returned" /\ i <= fetch_i) =>
            /\ fetch_result = "Err"
            /\ \E e \in ErrorsFor(i) :
                   /\ fetch_errors[e].kind = "InvalidSource"
                   /\ fetch_errors[e].path =
                          canonicalize(join(join(pkgbuild_dir, parent_dir), sources[i].path))
            /\ \A q \in copied : starts_with(q, canonicalize(pkgbuild_dir))

C19_RangeOnlyIfBytesAdvertised ==
    /\ \A n \in DOMAIN sent :
           sent[n] \notin {"no GET", {}} => (head.ok /\ head.accept_ranges = "bytes")
    /\ open_opts.append => (head.ok /\ head.accept_ranges = "bytes")

\* the scenario of C20: both runs returned Ok, with the cut in between, against
\* a server that advertises byte ranges and the payload's length and honours
\* a Range request; the first run had nothing to build on but a prefix of the
\* payload, if anything
GoodServer ==
    /\ head = [ok |-> TRUE, accept_ranges |-> "bytes", content_length |-> {Len(payload)}]
    /\ honours_range
RanCutRan ==
    /\ run = 2
    /\ http_pc = "returned"
    /\ http_result = <<"Ok", "Ok">>
    /\ deleted >= 0
    /\ GoodServer
    /\ clobber \/ ~prior.exists \/ IsPrefix(prior.bytes, payload)

\* C20 as stated: after download, cut of the last K bytes and second download
\* the destination equals the payload, and for 0 < K < length the second GET
\* carried Range: bytes=<length - K>-.
C20_CutAndResume ==
    RanCutRan =>
        /\ dest.bytes = payload
        /\ (0 < deleted /\ deleted < Len(payload)) => sent[2] = {Len(payload) - deleted}

\* C20: after download, cut of the last K bytes and second download the
\* destination equals the payload; for 0 < K < length the second GET carried
\* Range: bytes=<length - K>- if clobber is off, and no Range header if it is on.
C20_CutAndResumeUnlessClobber ==
    RanCutRan =>
        /\ dest.bytes = payload
        /\ (0 < deleted /\ deleted < Len(payload)) =>
               sent[2] = (IF clobber THEN {} ELSE {Len(payload) - deleted})

C20_Witness ==
    /\ RanCutRan
    /\ ~clobber
    /\ ~prior.exists
    /\ Len(payload) = 2
    /\ deleted = 1
    /\ sent = <<{}, {1}>>
    /\ dest.bytes = payload

\* the fetch, remove and clone calls of the run, and what follows them
Transport == SelectSeq(git_calls, LAMBDA c : c.op \in {"fetch", "remove_dir_all", "clone"})
AfterTransport == SelectSeq(git_calls, LAMBDA c : c.op \notin {"fetch", "remove_dir_all", "clone"})
TransportOps == [i \in 1..Len(Transport) |-> Transport[i].op]

\* C21: download_git fetches and does not clone when clobber is off and the
\* destination is a repository whose HEAD is a branch; removes the destination
\* and clones when it exists in any other case; clones when it does not exist;
\* the URL given to clone has no fragment.
C21_FetchOrRemoveAndClone ==
    /\ git_pc \in {"checkout", "returned"} =>
           TransportOps =
               (IF git_prior.exists /\ ~git_clobber /\ git_prior.repo /\ git_prior.head = "branch"
                  THEN <<"fetch">>
                ELSE IF git_prior.exists
                  THEN (IF git_result = "RemoveDir" THEN <<"remove_dir_all">>
                        ELSE <<"remove_dir_all", "clone">>)
                ELSE <<"clone">>)
    /\ \A i \in 1..Len(git_calls) :
           git_calls[i].op = "clone" => git_calls[i].arg.fragment = {}

C21_Witness ==
    /\ git_pc = "returned"
    /\ git_result = "Ok"
    /\ ~git_clobber
    /\ git_prior = [exists |-> TRUE, repo |-> TRUE, head |-> "detached"]
    /\ fragment = {<<"tag=", "m">>}
    /\ TransportOps = <<"remove_dir_all", "clone">>
    /\ git_url.fragment = {}

\* C22: after a successful clone or fetch, branch=B calls set_head on
\* refs/remotes/origin/B, tag=T resolves T, peels it to a tag and to its
\* object and detaches HEAD there, commit=C resolves C, peels it to a commit
\* and detaches HEAD there, each followed by a forced checkout of HEAD; another
\* fragment gives UnknownFragment; without fragment nothing is called.
C22_FragmentApplied ==
    (git_pc = "returned" /\ git_result \in {"Ok", "UnknownFragment"}) =>
        IF fragment = {} THEN git_result = "Ok" /\ AfterTransport = <<>>
        ELSE LET f == unwrap(fragment)
                 key == IF f = <<>> THEN "" ELSE Head(f)
                 rest == IF f = <<>> THEN <<>> ELSE Tail(f)
             IN  IF key = "branch="
                   THEN /\ git_result = "Ok"
                        /\ AfterTransport =
                               <<Call("set_head", <<"refs/remotes/origin/">> \o rest),
                                 Call("checkout_head", <<"force">>)>>
                 ELSE IF key = "tag="
                   THEN /\ git_result = "Ok"
                        /\ AfterTransport =
                               <<Call("revparse_single", rest), Call("peel_to_tag", <<>>),
                                 Call("peel", <<>>), Call("set_head_detached", <<>>),
                                 Call("checkout_head", <<"force">>)>>
                 ELSE IF key = "commit="
                   THEN /\ git_result = "Ok"
                        /\ AfterTransport =
                               <<Call("revparse_single", rest), Call("peel_to_commit", <<>>),
                                 Call("set_head_detached", <<>>),
                                 Call("checkout_head", <<"force">>)>>
                 ELSE git_result = "UnknownFragment" /\ AfterTransport = <<>>

\* the commands the build has started, in order
CommandsRun == SelectSeq(b_ops, LAMBDA o : o.op = "command")
Started == [i \in 1..Len(CommandsRun) |-> [cmd |-> CommandsRun[i].src, cwd |-> CommandsRun[i].arg]]
InDir(step, dir) ==
    IF step = {} THEN <<>>
    ELSE [i \in 1..Len(unwrap(step)) |-> [cmd |-> unwrap(step)[i], cwd |-> dir]]
ExpectedCommands ==
    InDir(recipe.prepare, "src") \o InDir(recipe.build, "build") \o InDir(recipe.install, "build")
ExitedZero == [waited |-> TRUE, code |-> {0}]
Packaged == \E i \in 1..Len(b_ops) : b_ops[i].op = "package"

\* C23: the commands started are, in order, an initial part of prepare's
\* commands in src/, then build's and install's in build/, absent phases left
\* out; every command but the last started one has exited with status zero;
\* and packaging is reached only after all of them.
C23_CommandsInOrder ==
    /\ IsPrefix(Started, ExpectedCommands)
    /\ \A i \in 1..Len(CommandsRun) - 1 : CommandsRun[i].status = ExitedZero
    /\ (b_pc = "package" \/ Packaged) =>
           /\ Started = ExpectedCommands
           /\ \A i \in 1..Len(CommandsRun) : CommandsRun[i].status = ExitedZero

C23_Witness ==
    /\ b_pc = "handled"
    /\ b_result = Ok
    /\ recipe.prepare = {Cmds("prepare", 1)}
    /\ recipe.build = {}
    /\ recipe.install = {Cmds("install", 2)}
    /\ Len(CommandsRun) = 3

\* C24: a command that exits with a status other than zero is the last
\* command started, makes the build stage return Command(recipe name, command,
\* exit code), packaging is not called, the totals bar is not advanced and the
\* one error recorded by the handler is that error.
C24_CommandFailureFailsBuild ==
    \A i \in 1..Len(CommandsRun) :
        (CommandsRun[i].status.waited /\ CommandsRun[i].status.code # {0}) =>
            /\ i = Len(CommandsRun)
            /\ b_pc \in {"returned", "handled"}
            /\ b_result = Res("Command", recipe.name, CommandsRun[i].src,
                              CommandsRun[i].status.code)
            /\ ~Packaged
            /\ b_total = 0
            /\ b_errors = IF b_pc = "handled" THEN <<b_result>> ELSE <<>>

C24_Witness ==
    /\ b_pc = "handled"
    /\ b_result = Res("Command", "n", Item("prepare", 1), {1})
    /\ recipe.prepare = {Cmds("prepare", 2)}
    /\ recipe.install = {Cmds("install", 1)}
    /\ Len(CommandsRun) = 1
    /\ b_errors = <<b_result>>

FirstCommandDue == CommandDue /\ CommandsRun = <<>>

\* C25: when the first command of a build is about to start, whatever earlier
\* runs left, pkg/ is an empty directory, build/ is a directory that holds
\* only what this run unpacked or copied, and unless verbose stdout.log and
\* stderr.log are empty files.
C25_CleanBeforeFirstCommand ==
    FirstCommandDue =>
        /\ tree["pkg"] = Entry("dir", {})
        /\ tree["build"].exists /\ tree["build"].form = "dir"
        /\ tree["build"].holds \subseteq
               {Item(k, i) : k \in {"unpacked", "copied"}, i \in 1..Len(recipe.source)}
        /\ (recipe.skip_extract => tree["build"].holds = {})
        /\ ~verbose => /\ tree["stdout.log"] = Entry("file", {})
                       /\ tree["stderr.log"] = Entry("file", {})

C25_Witness ==
    /\ FirstCommandDue
    /\ ~verbose
    /\ tree_prior["pkg"] = Entry("dir", {Stale})
    /\ tree_prior["build"] = Entry("dir", {Stale})
    /\ tree_prior["stdout.log"] = Entry("file", {Stale})
    /\ tree["build"].holds = {Item("unpacked", 1)}
    /\ b_step = 3

\* the entries of a package file
entries(package_file) == IF package_file.form = "xz" THEN package_file.holds ELSE {}

\* C26: when the build stage returns success the package file exists, its
\* entries are what pkg/ held when packaging started, and the tar file is gone.
C26_ArtifactOnSuccess ==
    (b_pc \in {"returned", "handled"} /\ b_result = Ok) =>
        /\ tree["tar.xz"].exists
        /\ tree["tar.xz"].form = "xz"
        /\ entries(tree["tar.xz"]) = b_snapshot
        /\ ~tree["tar"].exists

C26_Witness ==
    /\ b_pc = "handled"
    /\ b_result = Ok
    /\ b_snapshot = {Item("build", 1), Item("install", 1)}
    /\ tree_prior["tar"].exists
    /\ tree["build"].holds # {}

WroteArtifact == b_result \in {ArchiveErr("Compress"), ArchiveErr("RemoveFile")}

Pipeline(i) ==
    LET ops == SelectSeq(b_ops, LAMBDA o : o.src = i)
    IN  [j \in 1..Len(ops) |-> <<ops[j].op, ops[j].arg>>]
Gunzip == <<"decompress", "GzDecoder">>
Bunzip2 == <<"decompress", "BzDecoder">>
Unxz == <<"decompress", "XzDecoder">>
Untar == <<"extract_tar", "file">>
Claimed(f) ==
    IF ends_with(f, <<".tar", ".gz">>) \/ ends_with(f, <<".tgz">>) THEN <<Gunzip, Untar>>
    ELSE IF ends_with(f, <<".tar", ".bz2">>) \/ ends_with(f, <<".tbz">>) THEN <<Bunzip2, Untar>>
    ELSE IF ends_with(f, <<".tar", ".xz">>) \/ ends_with(f, <<".txz">>) THEN <<Unxz, Untar>>
    ELSE IF ends_with(f, <<".gz">>) THEN <<Gunzip>>
    ELSE IF ends_with(f, <<".bz2">>) THEN <<Bunzip2>>
    ELSE IF ends_with(f, <<".xz">>) THEN <<Unxz>>
    ELSE <<<<"copy_dir", "build_path">>>>

\* C29: a source that extract is done with went through the pipeline its file
\* name's suffix selects (gunzip, bunzip2 or unxz and then untar of the
\* decompressed file for the tar suffixes, the decompressor alone for .gz,
\* .bz2, .xz, a copy into build/ for any other name), and a source it failed
\* on went through an initial part of it; no source is decompressed twice.
C29_PipelineBySuffix ==
    \A i \in 1..Len(recipe.source) :
        /\ IsPrefix(Pipeline(i), Claimed(recipe.source[i]))
        /\ (b_pc \in {"source", "logs"} /\ b_src > i) =>
               Pipeline(i) = Claimed(recipe.source[i])
        /\ Cardinality({j \in 1..Len(Pipeline(i)) : Pipeline(i)[j][1] = "decompress"}) <= 1

C29_Witness ==
    /\ b_pc = "logs"
    /\ recipe.source = <<<<"x", ".tar", ".gz">>, <<"x", ".xz">>>>
    /\ Pipeline(1) = <<Gunzip, Untar>>
    /\ Pipeline(2) = <<Unxz>>
    /\ tree["build"].holds = {Item("unpacked", 1)}

\* C28: after two runs in a row without clobber neither run has recorded an
\* error and both packages were built from the same input, whatever the kind
\* of source and whether or not the prepare commands change src/.
C28_SameArtifactTwice ==
    rp_pc = "done" =>
        /\ rp_errors[1] = <<>>
        /\ rp_errors[2] = <<>>
        /\ rp_artifact[1] = rp_artifact[2]

\* $K stands in str at a place where a character that cannot continue an
\* identifier, or nothing, follows
Dangling(str, key) ==
    \E i \in 1..Len(str) :
        /\ i + Len(key) - 1 <= Len(str)
        /\ SubSeq(str, i, i + Len(key) - 1) = key
        /\ (i + Len(key) > Len(str) \/ ~is_xid_continue(str[i + Len(key)]))
Fields ==
    {package_raw.name, package_raw.version, package_raw.description}
    \cup {package_raw.license[i] : i \in DOMAIN package_raw.license}
    \cup {package_raw.source[i] : i \in DOMAIN package_raw.source}

\* C30: after the substitution, for every key K of the recipe's env no field
\* has $K followed by a character that cannot continue an identifier (or by
\* nothing), whatever the env's values are.
C30_NoKeyLeft ==
    subst_pc = "done" =>
        \A k \in Keys \cap DOMAIN env : \A str \in Fields : ~Dangling(str, <<"$">> \o k)

\* C38: a git source whose fragment has none of the forms branch=, tag=,
\* commit= is rejected with UnknownFragment before any clone, fetch or removal
\* of an existing destination, so the destination is as it was before the call.
C38_UnknownFragmentBeforeTransport ==
    (git_pc = "returned" /\ git_result = "UnknownFragment") =>
        /\ git_calls = <<>>
        /\ git_dest = git_prior

\* what a load that visits the env's keys in the order o makes of a package
RECURSIVE Loaded(_, _, _)
Loaded(pkg, e, o) ==
    IF o = <<>> THEN subst_implicit(pkg)
    ELSE Loaded(subst_fields(pkg, Head(o), e[Head(o)]), e, Tail(o))

\* C39: the substituted name, version, description, licenses and sources of a
\* load are those of every load of the same file, whatever order the env's
\* entries are visited in, also when an env value holds $K of another key K.
C39_SameForEveryOrder ==
    subst_pc = "done" =>
        \A o \in Orders(Keys \cap DOMAIN env) : package_raw = Loaded(package_in, env, o)

\* the sources extract is done with
Extracted == {i \in 1..Len(recipe.source) : b_pc \in {"source", "logs"} /\ b_src > i}
\* source i has entries of its own in build/, with its content or with the
\* content a later source wrote over them
Placed(i, kinds) == \E it \in tree["build"].holds : it.id = i /\ it.kind \in kinds

\* C37: with skip_extract false, every source a successful extract went
\* through has content of its own in build/: its unpacked entries, its
\* decompressed file or a copy of the file.
C37_EverySourceLeavesContent ==
    (b_pc = "logs" /\ ~recipe.skip_extract) =>
        \A i \in 1..Len(recipe.source) :
            Placed(i, {"unpacked", "decompressed", "copied", "clobbered"})

\* a source whose pipeline ends in an untar or a copy
Places(i) ==
    /\ Pipeline(i) # <<>>
    /\ Pipeline(i)[Len(Pipeline(i))][1] \in {"extract_tar", "copy_dir"}

C34_SuccessMeansPayload ==
    (/\ run = 1
     /\ http_pc = "returned"
     /\ deleted = -1
     /\ http_result[1] = "Ok"
     /\ (prior.exists => IsPrefix(prior.bytes, payload))) =>
        /\ dest.exists
        /\ dest.bytes = payload

\* C33 as stated: the totals bar message is the number of recorded errors at
\* every moment, and the final number when the engine has returned.
C33_MessageIsErrorCount ==
    /\ total_msg = Len(errors)
    /\ EngineReturned => total_msg = Len(result.errs)

\* C33: the totals bar message is the length of the error bag from every
\* add_error call on, of whichever worker, until the next push; only the
\* Multibar error that run pushes after a failed join is not counted in it,
\* so the message is the number of recorded errors or, while that error is
\* the last one recorded, one less.
C33_MessageFollowsReports ==
    /\ total_msg = Len(errors)
           \/ (/\ errors # <<>>
               /\ errors[Len(errors)].kind = "Multibar"
               /\ total_msg = Len(errors) - 1)
    /\ EngineReturned =>
           total_msg = Len(result.errs)
               - (IF result.errs # <<>> /\ result.errs[Len(result.errs)].kind = "Multibar"
                    THEN 1 ELSE 0)

C33_Witness ==
    /\ EngineReturned
    /\ bar_count >= 3
    /\ Len(errors) = 2
    /\ total_msg = 2
    /\ errors[1].pkg # 0
    /\ errors[2].pkg # 0
    /\ errors[1].pkg # errors[2].pkg

\* the CreateDir errors recorded for recipe r at stage k
CreateDirErrors(r, k) == {i \in 1..Len(errors) : errors[i] = Err(r, k, "CreateDir")}

\* C35: when a worker has popped a recipe whose base directory does not exist
\* and cannot be created, exactly one CreateDir error is recorded for it, the
\* stage's iter_fn is not run on it, it is not pushed to the next stage and not
\* counted on the totals bar, and the worker is back at popping from the same
\* queue.
C35_CreateDirFailureSkipsRecipe ==
    /\ [](\A r \in Recipes : \A k \in Stages :
              /\ Cardinality(CreateDirErrors(r, k)) = mkdir_failed[r][k]
              /\ mkdir_failed[r][k] > 0 =>
                     /\ mkdir_failed[r][k] = 1
                     /\ started[r][k] = 0
                     /\ outcome[r][k] = "none"
                     /\ \A j \in Stages : j > k => pushed[r][j] = 0
                     /\ counted[r] = 0)
    /\ [][\A r \in Recipes : \A k \in Stages :
              mkdir_failed'[r][k] # mkdir_failed[r][k] =>
                  /\ ~base_exists[r]
                  /\ errors' = Append(errors, Err(r, k, "CreateDir"))
                  /\ started' = started /\ pushed' = pushed /\ queues' = queues
                  /\ counted' = counted /\ total_pos' = total_pos
                  /\ \E w \in Workers :
                         /\ pc[w] = "popped" /\ buildfile[w] = r /\ current_queue[w] = k
                         /\ pc'[w] = "loop" /\ current_queue'[w] = k
       ]_vars

C35_Witness ==
    /\ bar_count = 2
    /\ batch = 2
    /\ errors = <<Err(1, 0, "CreateDir")>>
    /\ mkdir_failed[1][0] = 1
    /\ started[1][0] = 0
    /\ current_queue[1] = 0
    /\ started[2][0] = 1

\* C36: every command the build stage runs is one of the recipe's prepare,
\* build and install commands, so no check command is ever run, with
\* skip_check true, false or absent; and a recipe that reaches the build stage
\* has skip_check true or a check list, the others being rejected with
\* NeedsCheck before anything is run.
C36_CheckNeverRun ==
    /\ \A i \in 1..Len(CommandsRun) :
           CommandsRun[i].src.kind \in {"prepare", "build", "install"}
    /\ b_pc \notin {"open", "rejected"} =>
           (recipe.skip_check = {TRUE} \/ recipe.check # {})
    /\ b_pc = "rejected" =>
           /\ recipe.skip_check # {TRUE} /\ recipe.check = {}
           /\ b_ops = <<>>
           /\ tree = tree_prior

C36_Witness ==
    /\ b_pc = "handled"
    /\ b_result = Ok
    /\ recipe.skip_check = {FALSE}
    /\ recipe.check = {Cmds("check", MaxCmds)}
    /\ Len(CommandsRun) = MaxRecipeCmds
    /\ Started = ExpectedCommands

\* C31: every call of copy_dir returns Ok, whatever the destination held
\* before; the destination then has every entry of the source, with the
\* source's content, and every entry it had before; and a second call with
\* the same source changes nothing.
C31_CopyTreeIdempotent ==
    cp_pc = "returned" =>
        /\ cp_result[cp_run] = "Ok"
        /\ \A i \in 1..Len(cp_walk) :
               cp_dest[cp_walk[i].path] =
                   (IF cp_walk[i].is_dir THEN Dir ELSE Node("file", "new"))
        /\ \A p \in DestPaths : cp_prior[p] # Nothing => cp_dest[p] # Nothing
        /\ cp_run = 2 => cp_dest = cp_first

\* C40: for every recipe name, terminal width and command string run_step does
\* not panic, and the number it hands to take() is the terminal width less the
\* name's length less 6, which is not negative.
C40_MessageSetWithoutAbort ==
    /\ ms_pc # "panicked"
    /\ ms_pc = "set" =>
           /\ ms_take = unwrap_or(ms_width, 80) - ms_name - 6
           /\ ms_take >= 0

====
